---------------------------- MODULE Spec2Model ----------------------------
(***************************************************************************)
(* State-machine model of the clock::v2 layer of the thumbv6m HAL:         *)
(* tokens, disabled handles and Enabled<_, N> handles of the oscillators,  *)
(* the DPLL, the peripheral channel clocks and the APB bus gates, together *)
(* with the SYSCTRL / GCLK / PM registers they write.                      *)
(***************************************************************************)
EXTENDS Integers, Sequences, FiniteSets, TLC

VARIABLES
    pac,       \* who holds the SYSCTRL/GCLK/PM PAC structs: "raw", "wrapped"
    osc8m,     \* [slot -> Osc8mToken / Osc8m / EnabledOsc8m<N>]
    osc32k,    \* Osc32kToken / Osc32k / EnabledOsc32k<N>
    xosc,      \* XoscToken / Xosc<M> / EnabledXosc<M, N>
    xosc32k,   \* Xosc32kToken / EnabledXosc32k<N>
    dpll,      \* DpllToken / Dpll<I> / EnabledDpll<I, N>
    pclk,      \* [channel slot -> PclkToken<P> / Pclk<P, I>]
    gclk,      \* [generator -> Enabled<Gclk, N>] of the reset state
    osculp,    \* the three ultra-low-power oscillator handles
    apb,       \* [ApbId -> "none" / "token" / "clk"]
    hw,        \* the hardware registers
    rmw,       \* the register value an APB read-modify-write holds in flight
    irqs,      \* interrupt-context writes taken so far
    wlog,      \* register transactions of the last operation, in order
    last,      \* the last operation and its outcome
    pc,        \* the blocking call the program is inside of, if any
    eic,       \* pac::EIC / ConfigurableEIC / EIC with the EIC registers
    pwm        \* a PWM driver with the timer registers it reads back

own  == <<osc8m, osc32k, xosc, xosc32k, dpll, pclk, gclk, osculp>>
vars == <<pac, osc8m, osc32k, xosc, xosc32k, dpll, pclk, gclk, osculp, apb,
          hw, rmw, irqs, wlog, last, pc, eic, pwm>>

----------------------------------------------------------------------------
(* Register access: svd2rust modify() / write() / reset()                  *)

NoIo(regs) == [regs |-> regs, log |-> <<>>]

\* reg.modify(|_, w| w.f1().bits(v1) ...): one read-modify-write transaction
\* that replaces the named fields and keeps the others.
Modify(io, reg, upd) ==
    [regs |-> [io.regs EXCEPT ![reg] =
                  [f \in DOMAIN @ |-> IF f \in DOMAIN upd THEN upd[f] ELSE @[f]]],
     log  |-> Append(io.log, [reg |-> reg, fields |-> DOMAIN upd])]

Last(op, id, res, n) == [op |-> op, id |-> id, res |-> res, n |-> n]

\* the program is between two calls
Idle == [op |-> "none", id |-> "none"]

----------------------------------------------------------------------------
(* Enabled<T, N>: the type-level usage counter                             *)

Inc(o) == [o EXCEPT !.n = @ + 1]
Dec(o) == [o EXCEPT !.n = @ - 1]

----------------------------------------------------------------------------
(* Osc8m                                                                   *)

Prescalers == {"Prescaler1", "Prescaler2", "Prescaler4", "Prescaler8"}

PrescalerBits(p) ==
    CASE p = "Prescaler1" -> 0
      [] p = "Prescaler2" -> 1
      [] p = "Prescaler4" -> 2
      [] p = "Prescaler8" -> 3

Osc8mSlots == {1, 2}

Osc8mNone  == [st |-> "none", n |-> 0, run_standby |-> FALSE,
               on_demand_mode |-> TRUE, prescaler |-> "Prescaler1"]
Osc8mToken == [Osc8mNone EXCEPT !.st = "token"]

\* Osc8m::new
Osc8m_new == [Osc8mToken EXCEPT !.st = "handle"]

\* Osc8m::freq
Osc8m_freq(o) ==
    CASE o.prescaler = "Prescaler1" -> 8000
      [] o.prescaler = "Prescaler2" -> 4000
      [] o.prescaler = "Prescaler4" -> 2000
      [] o.prescaler = "Prescaler8" -> 1000

Osc8mNew(s) ==
    /\ osc8m[s].st = "token"
    /\ osc8m' = [osc8m EXCEPT ![s] = Osc8m_new]
    /\ wlog' = <<>>
    /\ last' = Last("Osc8m::new", "osc8m", "ok", 0)
    /\ UNCHANGED <<eic, pwm, pc, pac, osc32k, xosc, xosc32k, dpll, pclk, gclk, osculp, apb,
                   hw, rmw, irqs>>

Osc8mFree(s) ==
    /\ osc8m[s].st = "handle"
    /\ osc8m' = [osc8m EXCEPT ![s] = Osc8mToken]
    /\ wlog' = <<>>
    /\ last' = Last("Osc8m::free", "osc8m", "ok", 0)
    /\ UNCHANGED <<eic, pwm, pc, pac, osc32k, xosc, xosc32k, dpll, pclk, gclk, osculp, apb,
                   hw, rmw, irqs>>

\* Osc8m::enable: four modify() transactions on OSC8M, then Enabled::new (N = U0)
Osc8m_enable_io(o, regs) ==
    LET a == Modify(NoIo(regs), "OSC8M", [ondemand |-> o.on_demand_mode])
        b == Modify(a, "OSC8M", [runstdby |-> o.run_standby])
        c == Modify(b, "OSC8M", [presc |-> PrescalerBits(o.prescaler)])
    IN  Modify(c, "OSC8M", [enable |-> TRUE])

Osc8mEnable(s) ==
    /\ osc8m[s].st = "handle"
    /\ LET io == Osc8m_enable_io(osc8m[s], hw)
       IN  hw' = io.regs /\ wlog' = io.log
    /\ osc8m' = [osc8m EXCEPT ![s].st = "enabled", ![s].n = 0]
    /\ last' = Last("Osc8m::enable", "osc8m", "ok", 0)
    /\ UNCHANGED <<eic, pwm, pc, pac, osc32k, xosc, xosc32k, dpll, pclk, gclk, osculp, apb,
                   rmw, irqs>>

\* impl<N: Counter> EnabledOsc8m<N> { fn disable }: offered for every N
Osc8mDisableOffered(o) == o.st = "enabled"

\* a disable() that hands back a freshly constructed handle
Osc8mDisableFresh(s) ==
    /\ Osc8mDisableOffered(osc8m[s])
    /\ LET io == Modify(NoIo(hw), "OSC8M", [enable |-> FALSE])
       IN  hw' = io.regs /\ wlog' = io.log
    /\ osc8m' = [osc8m EXCEPT ![s] = Osc8m_new]
    /\ last' = Last("Osc8m::disable", "osc8m", "ok", osc8m[s].n)
    /\ UNCHANGED <<eic, pwm, pc, pac, osc32k, xosc, xosc32k, dpll, pclk, gclk, osculp, apb,
                   rmw, irqs>>

Osc8mDisable(s) ==
    /\ Osc8mDisableOffered(osc8m[s])
    /\ LET io == Modify(NoIo(hw), "OSC8M", [enable |-> FALSE])
       IN  hw' = io.regs /\ wlog' = io.log
    /\ osc8m' = [osc8m EXCEPT ![s].st = "handle", ![s].n = 0]
    /\ last' = Last("Osc8m::disable", "osc8m", "ok", osc8m[s].n)
    /\ UNCHANGED <<eic, pwm, pc, pac, osc32k, xosc, xosc32k, dpll, pclk, gclk, osculp, apb,
                   rmw, irqs>>

----------------------------------------------------------------------------
(* Osc32k                                                                  *)

Osc32kStartups == {"CYCLE3", "CYCLE4", "CYCLE6", "CYCLE10", "CYCLE18",
                   "CYCLE34", "CYCLE66", "CYCLE130"}

Osc32kStartupBits(s) ==
    CASE s = "CYCLE3" -> 0 [] s = "CYCLE4" -> 1 [] s = "CYCLE6" -> 2
      [] s = "CYCLE10" -> 3 [] s = "CYCLE18" -> 4 [] s = "CYCLE34" -> 5
      [] s = "CYCLE66" -> 6 [] s = "CYCLE130" -> 7

Osc32kNone  == [st |-> "none", n |-> 0, run_standby |-> FALSE,
                on_demand_mode |-> TRUE, start_up |-> "CYCLE66"]
Osc32kToken == [Osc32kNone EXCEPT !.st = "token"]

\* Osc32k::new
Osc32k_new == [Osc32kToken EXCEPT !.st = "handle"]

\* impl Source for EnabledOsc32k<N>
Osc32k_freq == 32768

Osc32kNew ==
    /\ osc32k.st = "token"
    /\ osc32k' = Osc32k_new
    /\ wlog' = <<>>
    /\ last' = Last("Osc32k::new", "osc32k", "ok", 0)
    /\ UNCHANGED <<eic, pwm, pc, pac, osc8m, xosc, xosc32k, dpll, pclk, gclk, osculp, apb,
                   hw, rmw, irqs>>

\* a free() that drops the token instead of returning it
Osc32kFreeDropsToken ==
    /\ osc32k.st = "handle"
    /\ osc32k' = Osc32kNone
    /\ wlog' = <<>>
    /\ last' = Last("Osc32k::free", "osc32k", "ok", 0)
    /\ UNCHANGED <<eic, pwm, pc, pac, osc8m, xosc, xosc32k, dpll, pclk, gclk, osculp, apb,
                   hw, rmw, irqs>>

\* Osc32k::free
Osc32kFree ==
    /\ osc32k.st = "handle"
    /\ osc32k' = Osc32kToken
    /\ wlog' = <<>>
    /\ last' = Last("Osc32k::free", "osc32k", "ok", 0)
    /\ UNCHANGED <<eic, pwm, pc, pac, osc8m, xosc, xosc32k, dpll, pclk, gclk, osculp, apb,
                   hw, rmw, irqs>>

\* an enable() that switches the 32 kHz output on after the master enable
Osc32k_enable_io_En32kLast(o, regs) ==
    LET a == Modify(NoIo(regs), "OSC32K", [ondemand |-> o.on_demand_mode])
        b == Modify(a, "OSC32K", [runstdby |-> o.run_standby])
        c == Modify(b, "OSC32K", [startup |-> Osc32kStartupBits(o.start_up)])
        d == Modify(c, "OSC32K", [enable |-> TRUE])
    IN  Modify(d, "OSC32K", [en32k |-> TRUE])

\* Osc32k::enable
Osc32k_enable_io(o, regs) ==
    LET a == Modify(NoIo(regs), "OSC32K", [ondemand |-> o.on_demand_mode])
        b == Modify(a, "OSC32K", [runstdby |-> o.run_standby])
        c == Modify(b, "OSC32K", [startup |-> Osc32kStartupBits(o.start_up)])
        d == Modify(c, "OSC32K", [en32k |-> TRUE])
    IN  Modify(d, "OSC32K", [enable |-> TRUE])

Osc32kEnable ==
    /\ osc32k.st = "handle"
    /\ LET io == Osc32k_enable_io(osc32k, hw)
       IN  hw' = io.regs /\ wlog' = io.log
    /\ osc32k' = [osc32k EXCEPT !.st = "enabled", !.n = 0]
    /\ last' = Last("Osc32k::enable", "osc32k", "ok", 0)
    /\ UNCHANGED <<eic, pwm, pc, pac, osc8m, xosc, xosc32k, dpll, pclk, gclk, osculp, apb,
                   rmw, irqs>>

\* impl<N: Counter> EnabledOsc32k<N> { fn disable }: offered for every N
Osc32kDisableOffered(o) == o.st = "enabled"

\* a disable that leaves the 32 kHz output switched on
Osc32k_disable_io_KeepsEn32k(regs) == Modify(NoIo(regs), "OSC32K", [enable |-> FALSE])

\* EnabledOsc32k::disable
Osc32k_disable_io(regs) ==
    LET a == Modify(NoIo(regs), "OSC32K", [enable |-> FALSE])
    IN  Modify(a, "OSC32K", [en32k |-> FALSE])

Osc32kDisable ==
    /\ Osc32kDisableOffered(osc32k)
    /\ LET io == Osc32k_disable_io(hw)
       IN  hw' = io.regs /\ wlog' = io.log
    /\ osc32k' = [osc32k EXCEPT !.st = "handle", !.n = 0]
    /\ last' = Last("Osc32k::disable", "osc32k", "ok", osc32k.n)
    /\ UNCHANGED <<eic, pwm, pc, pac, osc8m, xosc, xosc32k, dpll, pclk, gclk, osculp, apb,
                   rmw, irqs>>

----------------------------------------------------------------------------
(* Xosc                                                                    *)

XoscStartups == {"CYCLE1", "CYCLE2", "CYCLE4", "CYCLE8", "CYCLE16", "CYCLE32",
                 "CYCLE64", "CYCLE128", "CYCLE256", "CYCLE512", "CYCLE1024",
                 "CYCLE2048", "CYCLE4096", "CYCLE8192", "CYCLE16384",
                 "CYCLE32768"}

XoscStartupBits(s) ==
    CASE s = "CYCLE1" -> 0 [] s = "CYCLE2" -> 1 [] s = "CYCLE4" -> 2
      [] s = "CYCLE8" -> 3 [] s = "CYCLE16" -> 4 [] s = "CYCLE32" -> 5
      [] s = "CYCLE64" -> 6 [] s = "CYCLE128" -> 7 [] s = "CYCLE256" -> 8
      [] s = "CYCLE512" -> 9 [] s = "CYCLE1024" -> 10 [] s = "CYCLE2048" -> 11
      [] s = "CYCLE4096" -> 12 [] s = "CYCLE8192" -> 13
      [] s = "CYCLE16384" -> 14 [] s = "CYCLE32768" -> 15

Gains == {"Zero", "TwoMHz", "FourMHz", "EightMHz", "SixteenMHz", "ThirtyTwoMHz"}

\* impl From<Gain> for GAIN_A
GainBits(g) ==
    CASE g = "Zero" -> 0 [] g = "TwoMHz" -> 0 [] g = "FourMHz" -> 1
      [] g = "EightMHz" -> 2 [] g = "SixteenMHz" -> 3 [] g = "ThirtyTwoMHz" -> 4

XoscNone  == [st |-> "none", n |-> 0, mode |-> "none", src_freq |-> 0,
              start_up_cycles |-> "CYCLE1", on_demand |-> TRUE,
              run_standby |-> FALSE, gain |-> "Zero",
              amplitude_loop_control |-> FALSE]
XoscToken == [XoscNone EXCEPT !.st = "token"]

\* Xosc::from_clock
Xosc_from_clock(f) ==
    [XoscToken EXCEPT !.st = "handle", !.mode = "ClockMode", !.src_freq = f]

\* Xosc::from_crystal
Xosc_from_crystal(f) ==
    [XoscToken EXCEPT !.st = "handle", !.mode = "CrystalMode", !.src_freq = f,
                      !.amplitude_loop_control = TRUE]

\* Mode::XTALEN
XTALEN(o) == o.mode = "CrystalMode"

\* Xosc::freq
Xosc_freq(o) == o.src_freq

XoscFromClock(f) ==
    /\ xosc.st = "token"
    /\ xosc' = Xosc_from_clock(f)
    /\ wlog' = <<>>
    /\ last' = Last("Xosc::from_clock", "xosc", "ok", 0)
    /\ UNCHANGED <<eic, pwm, pc, pac, osc8m, osc32k, xosc32k, dpll, pclk, gclk, osculp, apb,
                   hw, rmw, irqs>>

XoscFromCrystal(f) ==
    /\ xosc.st = "token"
    /\ xosc' = Xosc_from_crystal(f)
    /\ wlog' = <<>>
    /\ last' = Last("Xosc::from_crystal", "xosc", "ok", 0)
    /\ UNCHANGED <<eic, pwm, pc, pac, osc8m, osc32k, xosc32k, dpll, pclk, gclk, osculp, apb,
                   hw, rmw, irqs>>

XoscFree ==
    /\ xosc.st = "handle"
    /\ xosc' = XoscToken
    /\ wlog' = <<>>
    /\ last' = Last("Xosc::free", "xosc", "ok", 0)
    /\ UNCHANGED <<eic, pwm, pc, pac, osc8m, osc32k, xosc32k, dpll, pclk, gclk, osculp, apb,
                   hw, rmw, irqs>>

\* the value XOSC takes on reset(): ONDEMAND set, every other field clear
XoscResetValue ==
    [enable |-> FALSE, xtalen |-> FALSE, startup |-> 0, ondemand |-> TRUE,
     runstdby |-> FALSE, ampgc |-> FALSE, gain |-> 0]

\* XoscToken::reset: one write of the reset value
Xosc_reset_io(io) ==
    [regs |-> [io.regs EXCEPT !["XOSC"] = XoscResetValue],
     log  |-> Append(io.log, [reg |-> "XOSC", fields |-> DOMAIN XoscResetValue])]

\* an enable that only sets ENABLE over whatever the register holds
Xosc_enable_io_EnableOnly(o, regs) == Modify(NoIo(regs), "XOSC", [enable |-> TRUE])

\* Xosc::enable
Xosc_enable_io(o, regs) ==
    LET a == Xosc_reset_io(NoIo(regs))
        b == Modify(a, "XOSC", [xtalen |-> XTALEN(o)])
        c == Modify(b, "XOSC", [startup |-> XoscStartupBits(o.start_up_cycles)])
        d == Modify(c, "XOSC", [ondemand |-> o.on_demand])
        e == Modify(d, "XOSC", [runstdby |-> o.run_standby])
        f == Modify(e, "XOSC", [ampgc |-> o.amplitude_loop_control])
        g == Modify(f, "XOSC", [gain |-> GainBits(o.gain)])
    IN  Modify(g, "XOSC", [enable |-> TRUE])

XoscEnable ==
    /\ xosc.st = "handle"
    /\ LET io == Xosc_enable_io(xosc, hw)
       IN  hw' = io.regs /\ wlog' = io.log
    /\ xosc' = [xosc EXCEPT !.st = "enabled", !.n = 0]
    /\ last' = Last("Xosc::enable", "xosc", "ok", 0)
    /\ UNCHANGED <<eic, pwm, pc, pac, osc8m, osc32k, xosc32k, dpll, pclk, gclk, osculp, apb,
                   rmw, irqs>>

\* a disable() offered at every counter value
XoscDisableOfferedAnyN(o) == o.st = "enabled"

\* impl<M> EnabledXosc<M> { fn disable }: N defaults to U0
XoscDisableOffered(o) == o.st = "enabled" /\ o.n = 0

XoscDisable ==
    /\ XoscDisableOffered(xosc)
    /\ LET io == Modify(NoIo(hw), "XOSC", [enable |-> FALSE])
       IN  hw' = io.regs /\ wlog' = io.log
    /\ xosc' = [xosc EXCEPT !.st = "handle", !.n = 0]
    /\ last' = Last("Xosc::disable", "xosc", "ok", xosc.n)
    /\ UNCHANGED <<eic, pwm, pc, pac, osc8m, osc32k, xosc32k, dpll, pclk, gclk, osculp, apb,
                   rmw, irqs>>

----------------------------------------------------------------------------
(* Xosc32k: only its token (reset.rs) and its use as a Dpll source         *)
(* (dpll.rs) are in the sources; the handle is modelled from section 4.1.  *)

Xosc32kNone  == [st |-> "none", n |-> 0]
Xosc32kToken == [st |-> "token", n |-> 0]

Xosc32k_freq == 32768

Xosc32kEnable ==
    /\ xosc32k.st = "token"
    /\ xosc32k' = [st |-> "enabled", n |-> 0]
    /\ wlog' = <<>>
    /\ last' = Last("Xosc32k::enable", "xosc32k", "ok", 0)
    /\ UNCHANGED <<eic, pwm, pc, pac, osc8m, osc32k, xosc, dpll, pclk, gclk, osculp, apb,
                   hw, rmw, irqs>>

Xosc32kDisable ==
    /\ xosc32k.st = "enabled" /\ xosc32k.n = 0
    /\ xosc32k' = Xosc32kToken
    /\ wlog' = <<>>
    /\ last' = Last("Xosc32k::disable", "xosc32k", "ok", xosc32k.n)
    /\ UNCHANGED <<eic, pwm, pc, pac, osc8m, osc32k, xosc, dpll, pclk, gclk, osculp, apb,
                   hw, rmw, irqs>>

----------------------------------------------------------------------------
(* u32 arithmetic.  A u32 product is kept as two 16-bit halves together    *)
(* with the flag that the exact product did not fit in 32 bits.            *)

Half == 256 * 256

U32(hi, lo, ovf) == [hi |-> hi, lo |-> lo, ovf |-> ovf]

\* p * d for a digit d <= 256
U32MulDigit(p, d) ==
    LET l == p.lo * d
        h == p.hi * d + (l \div Half)
    IN  U32(h % Half, l % Half, p.ovf \/ h >= Half)

U32Add(p, q) ==
    LET l == p.lo + q.lo
        h == p.hi + q.hi + (l \div Half)
    IN  U32(h % Half, l % Half, p.ovf \/ q.ovf \/ h >= Half)

\* a * b modulo 2^32, for a < 2^31 and b < 2^24
U32Mul(a, b) ==
    LET pa == U32(a \div Half, a % Half, FALSE)
        b2 == b \div Half
        b1 == (b % Half) \div 256
        b0 == b % 256
        r2 == U32MulDigit(pa, b2)
        r1 == U32Add(U32MulDigit(r2, 256), U32MulDigit(pa, b1))
    IN  U32Add(U32MulDigit(r1, 256), U32MulDigit(pa, b0))

\* (lo..=hi).contains(&v) for bounds below 2^31
U32Contains(lo, hi, v) ==
    /\ v.hi < Half \div 2
    /\ lo <= v.hi * Half + v.lo
    /\ v.hi * Half + v.lo <= hi

----------------------------------------------------------------------------
(* Pclk: peripheral channel clocks                                         *)

\* the channels whose tokens and clocks are tracked; "wdt0" is Clocks::wdt,
\* built by por_state from a PclkToken<Wdt> of its own
PclkSlots == {"wdt0", "wdt", "dpll", "sercom0"}

PclkIdOf(s) ==
    CASE s = "wdt0" -> "Wdt" [] s = "wdt" -> "Wdt"
      [] s = "dpll" -> "DpllId" [] s = "sercom0" -> "Sercom0"

\* with_pclk_types_ids!: the CLKCTRL channel of every PclkId type
PclkTypeIds ==
    [DfllId |-> 0, DpllId |-> 1, Dpll32k |-> 2, Wdt |-> 3, Rtc |-> 4,
     Eic |-> 5, Usb |-> 6, EvSys0 |-> 7, EvSys1 |-> 8, EvSys2 |-> 9,
     EvSys3 |-> 10, EvSys4 |-> 11, EvSys5 |-> 12, EvSys6 |-> 13,
     EvSys7 |-> 14, EvSys8 |-> 15, EvSys9 |-> 16, EvSys10 |-> 17,
     EvSys11 |-> 18, SlowClk |-> 19, Sercom0 |-> 20, Sercom1 |-> 21,
     Sercom2 |-> 22, Sercom3 |-> 23, Sercom4 |-> 24, Sercom5 |-> 25,
     Tcc0Tcc1 |-> 26, Tcc2Tc3 |-> 27, Tc4Tc5 |-> 28, Tc6Tc7 |-> 29,
     Adc |-> 30, AcDig |-> 31, AcAna |-> 32, Dac |-> 33, I2S0 |-> 35,
     I2S1 |-> 36]

PclkTypes == DOMAIN PclkTypeIds

\* a channel index cut to five bits
DynPclkIdFiveBits(P) == PclkTypeIds[P] % 32

\* P::DYN as u8: the DynPclkId discriminant written to CLKCTRL.ID
DynPclkId(P) == PclkTypeIds[P]

GclkIds == {0, 2}

GclkNone == [st |-> "none", n |-> 0, src |-> "none", freq |-> 0]

PclkNone  == [st |-> "none", n |-> 0, src |-> -1, freq |-> 0]
PclkToken == [PclkNone EXCEPT !.st = "token"]

\* a CLKCTRL transaction that leaves the ID field as the last caller set it
ClkctrlModifyStaleId(io, upd) ==
    LET m == Modify(io, "CLKCTRL", [f \in DOMAIN upd \ {"id"} |-> upd[f]])
        r == m.regs["CLKCTRL"]
    IN  [m EXCEPT !.regs["chan"][r.id] = [gen |-> r.gen, clken |-> r.clken]]

\* CLKCTRL is one register shared by all channels: the ID field written with
\* it selects the channel that takes the GEN and CLKEN fields of the write.
ClkctrlModify(io, upd) ==
    LET m == Modify(io, "CLKCTRL", upd)
        r == m.regs["CLKCTRL"]
    IN  [m EXCEPT !.regs["chan"][r.id] = [gen |-> r.gen, clken |-> r.clken]]

\* PclkToken::set_source
PclkToken_set_source(io, P, g) ==
    ClkctrlModify(io, [id |-> DynPclkId(P), gen |-> g])

\* PclkToken::enable
PclkToken_enable(io, P) ==
    ClkctrlModify(io, [id |-> DynPclkId(P), clken |-> TRUE])

\* PclkToken::disable
PclkToken_disable(io, P) ==
    ClkctrlModify(io, [id |-> DynPclkId(P), clken |-> FALSE])

\* a Pclk::enable that selects the source and does not set the enable bit
Pclk_enable_io_SourceOnly(regs, P, g) == PclkToken_set_source(NoIo(regs), P, g)

\* Pclk::enable, its register writes
Pclk_enable_io(regs, P, g) ==
    PclkToken_enable(PclkToken_set_source(NoIo(regs), P, g), P)

\* Source::freq of an enabled Gclk
Gclk_freq(k) == k.freq

\* the sole owner of Gclk0 (usage counter 1: the processor alone) changes its
\* divider or source, and with it the frequency the generator reports
Gclk0Reconfigure(f) ==
    /\ gclk[0].st = "enabled" /\ gclk[0].n = 1
    /\ gclk[0].freq # f
    /\ gclk' = [gclk EXCEPT ![0].freq = f]
    /\ wlog' = <<>>
    /\ last' = Last("Gclk0::reconfigure", "gclk0", "ok", gclk[0].n)
    /\ UNCHANGED <<eic, pwm, pc, pac, osc8m, osc32k, xosc, xosc32k, dpll, pclk, osculp, apb,
                   hw, rmw, irqs>>

\* a Pclk::enable that records the frequency of Gclk0 whatever its source is
PclkEnableFreqOfGclk0(s, g) ==
    /\ pclk[s].st = "token"
    /\ gclk[g].st = "enabled"
    /\ LET io == Pclk_enable_io(hw, PclkIdOf(s), g)
       IN  hw' = io.regs /\ wlog' = io.log
    /\ pclk' = [pclk EXCEPT ![s] = [st |-> "pclk", n |-> 0, src |-> g,
                                     freq |-> Gclk_freq(gclk[0])]]
    /\ gclk' = [gclk EXCEPT ![g] = Inc(@)]
    /\ last' = Last("Pclk::enable", PclkIdOf(s), "ok", gclk[g].n)
    /\ UNCHANGED <<eic, pwm, pc, pac, osc8m, osc32k, xosc, xosc32k, dpll, osculp, apb,
                   rmw, irqs>>

\* Pclk::enable: let freq = gclk.freq(); set_source; enable; gclk.inc()
PclkEnable(s, g) ==
    /\ pclk[s].st = "token"
    /\ gclk[g].st = "enabled"
    /\ LET io == Pclk_enable_io(hw, PclkIdOf(s), g)
       IN  hw' = io.regs /\ wlog' = io.log
    /\ pclk' = [pclk EXCEPT ![s] = [st |-> "pclk", n |-> 0, src |-> g,
                                     freq |-> Gclk_freq(gclk[g])]]
    /\ gclk' = [gclk EXCEPT ![g] = Inc(@)]
    /\ last' = Last("Pclk::enable", PclkIdOf(s), "ok", gclk[g].n)
    /\ UNCHANGED <<eic, pwm, pc, pac, osc8m, osc32k, xosc, xosc32k, dpll, osculp, apb,
                   rmw, irqs>>

\* a Pclk::disable that hands the source back without dec()
PclkDisableKeepsCount(s, g) ==
    /\ pclk[s].st = "pclk" /\ pclk[s].src = g
    /\ gclk[g].st = "enabled" /\ gclk[g].n > 0
    /\ LET io == PclkToken_disable(NoIo(hw), PclkIdOf(s))
       IN  hw' = io.regs /\ wlog' = io.log
    /\ pclk' = [pclk EXCEPT ![s] = PclkToken]
    /\ gclk' = gclk
    /\ last' = Last("Pclk::disable", PclkIdOf(s), "ok", gclk[g].n)
    /\ UNCHANGED <<eic, pwm, pc, pac, osc8m, osc32k, xosc, xosc32k, dpll, osculp, apb,
                   rmw, irqs>>

\* Pclk::disable<S: Source<Id = I> + Decrement>
PclkDisable(s, g) ==
    /\ pclk[s].st = "pclk" /\ pclk[s].src = g
    /\ gclk[g].st = "enabled" /\ gclk[g].n > 0
    /\ LET io == PclkToken_disable(NoIo(hw), PclkIdOf(s))
       IN  hw' = io.regs /\ wlog' = io.log
    /\ pclk' = [pclk EXCEPT ![s] = PclkToken]
    /\ gclk' = [gclk EXCEPT ![g] = Dec(@)]
    /\ last' = Last("Pclk::disable", PclkIdOf(s), "ok", gclk[g].n)
    /\ UNCHANGED <<eic, pwm, pc, pac, osc8m, osc32k, xosc, xosc32k, dpll, osculp, apb,
                   rmw, irqs>>

\* Pclk::freq
Pclk_freq(p) == p.freq

----------------------------------------------------------------------------
(* Dpll                                                                    *)

DpllNone  == [st |-> "none", n |-> 0, src |-> "none", src_freq |-> 0,
              mult |-> 1, frac |-> 0, lock_bypass |-> FALSE,
              wake_up_fast |-> FALSE, on_demand |-> TRUE, pclk |-> PclkNone,
              raw_prediv |-> 1]
DpllToken == [DpllNone EXCEPT !.st = "token"]

\* DpllSourceId::predivider
predivider(src, raw_prediv) ==
    IF src = "xosc" THEN 2 * (1 + raw_prediv) ELSE 1

\* impl From<DynDpllSourceId> for REFCLK_A
RefClk(src) ==
    CASE src = "pclk" -> "GCLK" [] src = "xosc" -> "REF1" [] src = "xosc32k" -> "REF0"

\* Dpll::from_pclk
Dpll_from_pclk(p) ==
    [DpllToken EXCEPT !.st = "handle", !.src = "pclk", !.src_freq = Pclk_freq(p),
                      !.pclk = p, !.raw_prediv = 1]

\* Dpll::from_xosc32k
Dpll_from_xosc32k(f) ==
    [DpllToken EXCEPT !.st = "handle", !.src = "xosc32k", !.src_freq = f,
                      !.raw_prediv = 1]

\* Dpll::from_xosc
Dpll_from_xosc(f, raw_prediv) ==
    [DpllToken EXCEPT !.st = "handle", !.src = "xosc", !.src_freq = f,
                      !.raw_prediv = raw_prediv]

DpllFromPclk ==
    /\ dpll.st = "token"
    /\ pclk["dpll"].st = "pclk"
    /\ dpll' = Dpll_from_pclk(pclk["dpll"])
    /\ pclk' = [pclk EXCEPT !["dpll"] = PclkNone]
    /\ wlog' = <<>>
    /\ last' = Last("Dpll::from_pclk", "dpll", "ok", 0)
    /\ UNCHANGED <<eic, pwm, pc, pac, osc8m, osc32k, xosc, xosc32k, gclk, osculp, apb,
                   hw, rmw, irqs>>

\* Dpll<G>::free
DpllFreePclk ==
    /\ dpll.st = "handle" /\ dpll.src = "pclk"
    /\ dpll' = DpllToken
    /\ pclk' = [pclk EXCEPT !["dpll"] = dpll.pclk]
    /\ wlog' = <<>>
    /\ last' = Last("Dpll::free", "dpll", "ok", 0)
    /\ UNCHANGED <<eic, pwm, pc, pac, osc8m, osc32k, xosc, xosc32k, gclk, osculp, apb,
                   hw, rmw, irqs>>

DpllFromXosc(raw_prediv) ==
    /\ dpll.st = "token"
    /\ xosc.st = "enabled"
    /\ dpll' = Dpll_from_xosc(Xosc_freq(xosc), raw_prediv)
    /\ xosc' = Inc(xosc)
    /\ wlog' = <<>>
    /\ last' = Last("Dpll::from_xosc", "dpll", "ok", xosc.n)
    /\ UNCHANGED <<eic, pwm, pc, pac, osc8m, osc32k, xosc32k, pclk, gclk, osculp, apb,
                   hw, rmw, irqs>>

\* a free that hands the Xosc back without lowering its counter
DpllFreeXoscKeepsCount ==
    /\ dpll.st = "handle" /\ dpll.src = "xosc"
    /\ xosc.st = "enabled" /\ xosc.n > 0
    /\ dpll' = DpllToken
    /\ xosc' = xosc
    /\ wlog' = <<>>
    /\ last' = Last("Dpll::free", "dpll", "ok", xosc.n)
    /\ UNCHANGED <<eic, pwm, pc, pac, osc8m, osc32k, xosc32k, pclk, gclk, osculp, apb,
                   hw, rmw, irqs>>

\* Dpll<XoscId>::free<S: Source<Id = XoscId> + Decrement>
DpllFreeXosc ==
    /\ dpll.st = "handle" /\ dpll.src = "xosc"
    /\ xosc.st = "enabled" /\ xosc.n > 0
    /\ dpll' = DpllToken
    /\ xosc' = Dec(xosc)
    /\ wlog' = <<>>
    /\ last' = Last("Dpll::free", "dpll", "ok", xosc.n)
    /\ UNCHANGED <<eic, pwm, pc, pac, osc8m, osc32k, xosc32k, pclk, gclk, osculp, apb,
                   hw, rmw, irqs>>

DpllFromXosc32k ==
    /\ dpll.st = "token"
    /\ xosc32k.st = "enabled"
    /\ dpll' = Dpll_from_xosc32k(Xosc32k_freq)
    /\ xosc32k' = Inc(xosc32k)
    /\ wlog' = <<>>
    /\ last' = Last("Dpll::from_xosc32k", "dpll", "ok", xosc32k.n)
    /\ UNCHANGED <<eic, pwm, pc, pac, osc8m, osc32k, xosc, pclk, gclk, osculp, apb,
                   hw, rmw, irqs>>

\* Dpll<Xosc32kId>::free<S: Source<Id = Xosc32kId> + Decrement>
DpllFreeXosc32k ==
    /\ dpll.st = "handle" /\ dpll.src = "xosc32k"
    /\ xosc32k.st = "enabled" /\ xosc32k.n > 0
    /\ dpll' = DpllToken
    /\ xosc32k' = Dec(xosc32k)
    /\ wlog' = <<>>
    /\ last' = Last("Dpll::free", "dpll", "ok", xosc32k.n)
    /\ UNCHANGED <<eic, pwm, pc, pac, osc8m, osc32k, xosc, pclk, gclk, osculp, apb,
                   hw, rmw, irqs>>

\* Dpll::set_loop_div
DpllSetLoopDiv(int, frac) ==
    /\ dpll.st = "handle"
    /\ dpll' = [dpll EXCEPT !.mult = int, !.frac = frac]
    /\ wlog' = <<>>
    /\ last' = Last("Dpll::set_loop_div", "dpll", "ok", 0)
    /\ UNCHANGED <<eic, pwm, pc, pac, osc8m, osc32k, xosc, xosc32k, pclk, gclk, osculp, apb,
                   hw, rmw, irqs>>

\* Dpll<XoscId>::set_raw_prediv
DpllSetRawPrediv(raw_prediv) ==
    /\ dpll.st = "handle" /\ dpll.src = "xosc"
    /\ dpll' = [dpll EXCEPT !.raw_prediv = raw_prediv]
    /\ wlog' = <<>>
    /\ last' = Last("Dpll::set_raw_prediv", "dpll", "ok", 0)
    /\ UNCHANGED <<eic, pwm, pc, pac, osc8m, osc32k, xosc, xosc32k, pclk, gclk, osculp, apb,
                   hw, rmw, irqs>>

\* the u32 factor  self.mult as u32 + self.frac as u32 / 32
LoopFactor(mult, frac) == mult + frac \div 32

\* Dpll::freq:  src_freq / predivider * (mult + frac / 32)  in u32
Dpll_freq(d) ==
    U32Mul(d.src_freq \div predivider(d.src, d.raw_prediv),
           LoopFactor(d.mult, d.frac))

DpllMinInput  == 32000
DpllMaxInput  == 2000000
DpllMinOutput == 48000000
DpllMaxOutput == 96000000
MaxPredivider == 2048

\* the three range checks of Dpll::enable
PredividerOk(d) ==
    LET p == predivider(d.src, d.raw_prediv) IN 1 <= p /\ p <= MaxPredivider

InputOk(d) ==
    LET i == d.src_freq \div predivider(d.src, d.raw_prediv)
    IN  DpllMinInput <= i /\ i <= DpllMaxInput

\* an output window that excludes its upper bound
OutputOkExclusive(d) == U32Contains(DpllMinOutput, DpllMaxOutput - 1, Dpll_freq(d))

OutputOk(d) == U32Contains(DpllMinOutput, DpllMaxOutput, Dpll_freq(d))

Dpll_checks(d) == PredividerOk(d) /\ InputOk(d) /\ OutputOk(d)

\* DpllToken::set_loop_div: DPLLRATIO.write(|w| ldr, ldrfrac)
DpllToken_set_loop_div(io, int, frac) ==
    [regs |-> [io.regs EXCEPT !["DPLLRATIO"] =
                  [ldr |-> ((int - 1) % Half) % 4096, ldrfrac |-> frac % 16]],
     log  |-> Append(io.log, [reg |-> "DPLLRATIO", fields |-> {"ldr", "ldrfrac"}])]

\* Dpll::force_enable
Dpll_force_enable_io(d, regs) ==
    LET a == Modify(NoIo(regs), "DPLLCTRLB", [refclk |-> RefClk(d.src)])
        b == IF d.src = "xosc"
             THEN Modify(a, "DPLLCTRLB", [div |-> d.raw_prediv % 1024])
             ELSE a
        c == DpllToken_set_loop_div(b, d.mult, d.frac)
        e == Modify(c, "DPLLCTRLB", [lbypass |-> d.lock_bypass])
        f == Modify(e, "DPLLCTRLB", [wuf |-> d.wake_up_fast])
        g == Modify(f, "DPLLCTRLA", [ondemand |-> d.on_demand])
    IN  Modify(g, "DPLLCTRLA", [enable |-> TRUE])

\* Dpll::enable, the Ok arm
DpllEnableOk ==
    /\ dpll.st = "handle"
    /\ Dpll_checks(dpll)
    /\ LET io == Dpll_force_enable_io(dpll, hw)
       IN  hw' = io.regs /\ wlog' = io.log
    /\ dpll' = [dpll EXCEPT !.st = "enabled", !.n = 0]
    /\ last' = Last("Dpll::enable", "dpll", "Ok", 0)
    /\ UNCHANGED <<eic, pwm, pc, pac, osc8m, osc32k, xosc, xosc32k, pclk, gclk, osculp, apb,
                   rmw, irqs>>

\* an Err arm that has already selected the reference clock when it fails
DpllEnableErrAfterRefclk ==
    /\ dpll.st = "handle"
    /\ ~Dpll_checks(dpll)
    /\ LET io == Modify(NoIo(hw), "DPLLCTRLB", [refclk |-> RefClk(dpll.src)])
       IN  hw' = io.regs /\ wlog' = io.log
    /\ dpll' = dpll
    /\ last' = Last("Dpll::enable", "dpll", "Err", 0)
    /\ UNCHANGED <<eic, pwm, pc, pac, osc8m, osc32k, xosc, xosc32k, pclk, gclk, osculp, apb,
                   rmw, irqs>>

\* Dpll::enable, the Err arm: Err(self), no register access
DpllEnableErr ==
    /\ dpll.st = "handle"
    /\ ~Dpll_checks(dpll)
    /\ dpll' = dpll
    /\ wlog' = <<>>
    /\ last' = Last("Dpll::enable", "dpll", "Err", 0)
    /\ UNCHANGED <<eic, pwm, pc, pac, osc8m, osc32k, xosc, xosc32k, pclk, gclk, osculp, apb,
                   hw, rmw, irqs>>

\* Dpll::enable in a build with overflow checks: the u32 multiplication of
\* Dpll::freq panics when the product does not fit.  The panic ends the
\* program: no handle or token is usable afterwards.
DpllEnablePanic ==
    /\ dpll.st = "handle"
    /\ Dpll_freq(dpll).ovf
    /\ pac' = "halted"
    /\ osc8m' = [s \in DOMAIN osc8m |-> Osc8mNone]
    /\ osc32k' = Osc32kNone
    /\ xosc' = XoscNone
    /\ xosc32k' = Xosc32kNone
    /\ dpll' = DpllNone
    /\ pclk' = [s \in DOMAIN pclk |-> PclkNone]
    /\ gclk' = [g \in DOMAIN gclk |-> GclkNone]
    /\ osculp' = [k \in DOMAIN osculp |-> [st |-> "none", n |-> 0]]
    /\ apb' = [a \in DOMAIN apb |-> "none"]
    /\ wlog' = <<>>
    /\ last' = Last("Dpll::enable", "dpll", "panic", 0)
    /\ UNCHANGED <<eic, pwm, pc, hw, rmw, irqs>>

\* impl<I> EnabledDpll<I> { fn disable }: N defaults to U0
DpllDisableOffered(d) == d.st = "enabled" /\ d.n = 0

DpllDisable ==
    /\ DpllDisableOffered(dpll)
    /\ LET io == Modify(NoIo(hw), "DPLLCTRLA", [enable |-> FALSE])
       IN  hw' = io.regs /\ wlog' = io.log
    /\ dpll' = [dpll EXCEPT !.st = "handle", !.n = 0]
    /\ last' = Last("Dpll::disable", "dpll", "ok", dpll.n)
    /\ UNCHANGED <<eic, pwm, pc, pac, osc8m, osc32k, xosc, xosc32k, pclk, gclk, osculp, apb,
                   rmw, irqs>>

----------------------------------------------------------------------------
(* APB bus gates                                                           *)

\* define_dyn_apb_id_masks!: the mask register and bit of every ApbId
ApbBit ==
    [Pac0 |-> <<"A", 0>>, Pm |-> <<"A", 1>>, SysCtrl |-> <<"A", 2>>,
     Gclk |-> <<"A", 3>>, Wdt |-> <<"A", 4>>, Rtc |-> <<"A", 5>>,
     Eic |-> <<"A", 6>>,
     Pac1 |-> <<"B", 0>>, Dsu |-> <<"B", 1>>, NvmCtrl |-> <<"B", 2>>,
     Port |-> <<"B", 3>>, Dmac |-> <<"B", 4>>, Usb |-> <<"B", 5>>,
     Pac2 |-> <<"C", 0>>, EvSys |-> <<"C", 1>>, Sercom0 |-> <<"C", 2>>,
     Sercom1 |-> <<"C", 3>>, Sercom2 |-> <<"C", 4>>, Sercom3 |-> <<"C", 5>>,
     Sercom4 |-> <<"C", 6>>, Sercom5 |-> <<"C", 7>>, Tcc0 |-> <<"C", 8>>,
     Tcc1 |-> <<"C", 9>>, Tcc2 |-> <<"C", 10>>, Tc3 |-> <<"C", 11>>,
     Tc4 |-> <<"C", 12>>, Tc5 |-> <<"C", 13>>, Tc6 |-> <<"C", 14>>,
     Tc7 |-> <<"C", 15>>, Adc |-> <<"C", 16>>, Ac |-> <<"C", 17>>,
     Dac |-> <<"C", 18>>, Ptc |-> <<"C", 19>>, I2S |-> <<"C", 20>>]

ApbIds == DOMAIN ApbBit

\* struct ApbTokens
ApbTokenIds ==
    {"Usb", "EvSys", "Sercom0", "Sercom1", "Sercom2", "Sercom3", "Sercom4",
     "Sercom5", "Tcc0", "Tcc1", "Tcc2", "Tc3", "Tc4", "Tc5", "Tc6", "Tc7",
     "Adc", "Ac", "Dac", "I2S"}

\* struct ApbClks
ApbClkIds ==
    {"Pac0", "Pm", "SysCtrl", "Gclk", "Wdt", "Rtc", "Eic", "Pac1", "Dsu",
     "NvmCtrl", "Port", "Dmac", "Pac2"}

MaskRegs == {"A", "B", "C"}
MaskName(r) == CASE r = "A" -> "APBAMASK" [] r = "B" -> "APBBMASK" [] r = "C" -> "APBCMASK"

\* a u32 mask register is kept as the set of positions of its 1 bits
Bits32 == 0 .. 31

\* From<DynApbId> for DynApbMask: 1 << BIT in the register of the id
DynApbMask(a) == [reg |-> ApbBit[a][1], bits |-> {ApbBit[a][2]}]

\* r.bits() | mask.bits()
OrMask(r, m) == r \cup m

\* r.bits() & !mask.bits()
AndNotMask(r, m) == r \ m

\* a write of the bare mask, w.bits(mask.bits()), instead of the OR
Apb_enable_value_assign(r, mask) == mask.bits

\* Apb::enable_mask / Apb::disable_mask: the value written from the value read
Apb_enable_value(r, mask) == OrMask(r, mask.bits)

\* a disable that writes back the value it read
Apb_disable_value_keep(r, mask) == r

Apb_disable_value(r, mask) == AndNotMask(r, mask.bits)

\* modify() on a mask register: read, then write w.bits(v)
MaskWrite(io, reg, v) ==
    [regs |-> [io.regs EXCEPT ![MaskName(reg)] = v],
     log  |-> Append(io.log, [reg |-> MaskName(reg), fields |-> {"bits"}])]

\* Apb::enable with no interrupt taken inside modify()
ApbEnable(a) ==
    /\ apb[a] = "token"
    /\ rmw.op = "idle"
    /\ LET m  == DynApbMask(a)
           io == MaskWrite(NoIo(hw), m.reg, Apb_enable_value(hw[MaskName(m.reg)], m))
       IN  hw' = io.regs /\ wlog' = io.log
    /\ apb' = [apb EXCEPT ![a] = "clk"]
    /\ last' = Last("Apb::enable", a, "ok", 0)
    /\ UNCHANGED <<eic, pwm, pc, pac, osc8m, osc32k, xosc, xosc32k, dpll, pclk, gclk, osculp,
                   rmw, irqs>>

\* Apb::disable with no interrupt taken inside modify()
ApbDisable(a) ==
    /\ apb[a] = "clk"
    /\ rmw.op = "idle"
    /\ LET m  == DynApbMask(a)
           io == MaskWrite(NoIo(hw), m.reg, Apb_disable_value(hw[MaskName(m.reg)], m))
       IN  hw' = io.regs /\ wlog' = io.log
    /\ apb' = [apb EXCEPT ![a] = "token"]
    /\ last' = Last("Apb::disable", a, "ok", 0)
    /\ UNCHANGED <<eic, pwm, pc, pac, osc8m, osc32k, xosc, xosc32k, dpll, pclk, gclk, osculp,
                   rmw, irqs>>

\* the read of modify(): Apb::enable / Apb::disable has read the mask register
\* and not yet written it back
ApbRead(a, op) ==
    /\ rmw.op = "idle"
    /\ apb[a] = (IF op = "enable" THEN "token" ELSE "clk")
    /\ rmw' = [op |-> op, id |-> a, val |-> hw[MaskName(ApbBit[a][1])], irq |-> {}]
    /\ wlog' = <<>>
    /\ last' = Last("Apb::" \o op, a, "read", 0)
    /\ UNCHANGED <<eic, pwm, pc, pac, osc8m, osc32k, xosc, xosc32k, dpll, pclk, gclk, osculp,
                   apb, hw, irqs>>

\* the write of modify(): the closure's value, computed from the value read
ApbWrite ==
    /\ rmw.op # "idle"
    /\ LET m  == DynApbMask(rmw.id)
           v  == IF rmw.op = "enable" THEN Apb_enable_value(rmw.val, m)
                                      ELSE Apb_disable_value(rmw.val, m)
           io == MaskWrite(NoIo(hw), m.reg, v)
       IN  hw' = io.regs /\ wlog' = io.log
    /\ apb' = [apb EXCEPT ![rmw.id] = IF rmw.op = "enable" THEN "clk" ELSE "token"]
    /\ rmw' = [rmw EXCEPT !.op = "idle"]
    /\ last' = Last("Apb::" \o rmw.op, rmw.id, "ok", 0)
    /\ UNCHANGED <<eic, pwm, pc, pac, osc8m, osc32k, xosc, xosc32k, dpll, pclk, gclk, osculp,
                   irqs>>

MaxIrq == 2

\* an interrupt handler sets (v = TRUE) or clears bit b of mask register reg,
\* itself running to completion
Irq(reg, b, v) ==
    /\ pac = "wrapped"
    /\ irqs < MaxIrq
    /\ irqs' = irqs + 1
    /\ hw' = [hw EXCEPT ![MaskName(reg)] = IF v THEN @ \cup {b} ELSE @ \ {b}]
    /\ rmw' = IF rmw.op # "idle" /\ reg = ApbBit[rmw.id][1]
              THEN [rmw EXCEPT !.irq = {x \in @ : x[1] # b} \cup {<<b, v>>}]
              ELSE rmw
    /\ UNCHANGED <<eic, pwm, pc, pac, osc8m, osc32k, xosc, xosc32k, dpll, pclk, gclk, osculp,
                   apb, wlog, last>>

\* the owner of the PM struct writes a mask register before por_state takes it
PmWrite(reg, v) ==
    /\ pac = "raw"
    /\ hw[MaskName(reg)] # v
    /\ hw' = [hw EXCEPT ![MaskName(reg)] = v]
    /\ UNCHANGED <<eic, pwm, pc, pac, osc8m, osc32k, xosc, xosc32k, dpll, pclk, gclk, osculp,
                   apb, rmw, irqs, wlog, last>>

----------------------------------------------------------------------------
(* Reset state                                                             *)

ChanIds == 0 .. 36

BitsOf(reg, ids) == {ApbBit[a][2] : a \in {x \in ids : ApbBit[x][1] = reg}}

\* the registers at power-on reset, as the Clocks documentation describes it
HwReset ==
    [OSC8M     |-> [enable |-> TRUE, presc |-> 0, ondemand |-> TRUE,
                    runstdby |-> FALSE, calib |-> 0, frange |-> 0],
     OSC32K    |-> [enable |-> FALSE, en32k |-> FALSE, en1k |-> FALSE,
                    runstdby |-> FALSE, ondemand |-> TRUE, startup |-> 0,
                    wrtlock |-> FALSE, calib |-> 63],
     XOSC      |-> XoscResetValue,
     OSCULP32K |-> [calib |-> 0, wrtlock |-> FALSE],
     DPLLCTRLA |-> [enable |-> FALSE, ondemand |-> TRUE],
     DPLLCTRLB |-> [refclk |-> "REF0", div |-> 0, lbypass |-> FALSE, wuf |-> FALSE],
     DPLLRATIO |-> [ldr |-> 0, ldrfrac |-> 0],
     DPLLSTATUS |-> [clkrdy |-> FALSE, lock |-> FALSE],
     PCLKSR    |-> [xoscrdy |-> FALSE, osc8mrdy |-> TRUE, osc32krdy |-> FALSE],
     CLKCTRL   |-> [id |-> 0, gen |-> 0, clken |-> FALSE],
     chan      |-> [c \in ChanIds |-> IF c = DynPclkId("Wdt")
                                      THEN [gen |-> 2, clken |-> TRUE]
                                      ELSE [gen |-> 0, clken |-> FALSE]],
     APBAMASK  |-> BitsOf("A", ApbClkIds),
     APBBMASK  |-> BitsOf("B", ApbClkIds),
     APBCMASK  |-> BitsOf("C", ApbClkIds)]

UlpNone  == [st |-> "none", n |-> 0]

\* an output frequency that follows the calibration value
OscUlp32k_freq_calibrated == 32768 + hw.OSCULP32K.calib

\* impl Source for EnabledOscUlp32k<N> / EnabledOscUlp1k<N>
OscUlp32k_freq == 32768
OscUlp1k_freq  == 1024

\* EnabledOscUlpBase<N>::set_calibration, for every N: a modify() of the
\* 5-bit CALIB field of OSCULP32K
OscUlpBaseSetCalibration(calib) ==
    /\ osculp.base.st = "enabled"
    /\ LET io == Modify(NoIo(hw), "OSCULP32K", [calib |-> calib % 32])
       IN  hw' = io.regs /\ wlog' = io.log
    /\ last' = Last("OscUlpBase::set_calibration", "osculp", "ok", osculp.base.n)
    /\ UNCHANGED <<eic, pwm, pc, pac, osc8m, osc32k, xosc, xosc32k, dpll, pclk, gclk, osculp,
                   apb, rmw, irqs>>

\* a write_lock that keeps the base handle and releases one of its users
OscUlpBaseWriteLockReleases ==
    /\ osculp.base.st = "enabled"
    /\ LET io == Modify(NoIo(hw), "OSCULP32K", [wrtlock |-> TRUE])
       IN  hw' = io.regs /\ wlog' = io.log
    /\ osculp' = [osculp EXCEPT !.base = Dec(@)]
    /\ last' = Last("OscUlpBase::write_lock", "osculp", "ok", osculp.base.n)
    /\ UNCHANGED <<eic, pwm, pc, pac, osc8m, osc32k, xosc, xosc32k, dpll, pclk, gclk, apb,
                   rmw, irqs>>

\* EnabledOscUlpBase<N>::write_lock: sets WRTLOCK and drops the base handle
OscUlpBaseWriteLock ==
    /\ osculp.base.st = "enabled"
    /\ LET io == Modify(NoIo(hw), "OSCULP32K", [wrtlock |-> TRUE])
       IN  hw' = io.regs /\ wlog' = io.log
    /\ osculp' = [osculp EXCEPT !.base = UlpNone]
    /\ last' = Last("OscUlpBase::write_lock", "osculp", "ok", osculp.base.n)
    /\ UNCHANGED <<eic, pwm, pc, pac, osc8m, osc32k, xosc, xosc32k, dpll, pclk, gclk, apb,
                   rmw, irqs>>

\* the consumers an output of the ultra-low-power oscillator is given
MaxUlpUsers == 2

UlpOutputs == {"osculp32k", "osculp1k"}

\* Enabled::inc on an output: a generator takes it as its source
OscUlpInc(k) ==
    /\ osculp[k].st = "enabled" /\ osculp[k].n < MaxUlpUsers
    /\ osculp' = [osculp EXCEPT ![k] = Inc(@)]
    /\ wlog' = <<>>
    /\ last' = Last("OscUlp::inc", k, "ok", osculp[k].n)
    /\ UNCHANGED <<eic, pwm, pc, pac, osc8m, osc32k, xosc, xosc32k, dpll, pclk, gclk, apb,
                   hw, rmw, irqs>>

\* Enabled::dec on an output: the generator releases it
OscUlpDec(k) ==
    /\ osculp[k].st = "enabled" /\ osculp[k].n > 0
    /\ osculp' = [osculp EXCEPT ![k] = Dec(@)]
    /\ wlog' = <<>>
    /\ last' = Last("OscUlp::dec", k, "ok", osculp[k].n)
    /\ UNCHANGED <<eic, pwm, pc, pac, osc8m, osc32k, xosc, xosc32k, dpll, pclk, gclk, apb,
                   hw, rmw, irqs>>

\* the EIC registers after a reset of the controller
EicResetRegs ==
    [EIC_CTRLA      |-> [swrst |-> FALSE, enable |-> FALSE, cksel |-> FALSE],
     EIC_SYNCBUSY   |-> [swrst |-> FALSE, enable |-> FALSE],
     EIC_DPRESCALER |-> [tickon |-> FALSE, states0 |-> FALSE, states1 |-> FALSE,
                         prescaler0 |-> "DIV2", prescaler1 |-> "DIV2"],
     EIC_DEBOUNCEN  |-> [bits |-> {}]]

\* the caller holds pac::EIC and pac::MCLK
EicRaw == [own |-> "raw", apbamask_eic |-> FALSE, regs |-> EicResetRegs]

\* no PWM driver has been built
PwmNone == [kind |-> "none", clock_freq |-> 0, prescaler |-> 0, top |-> 0,
            enable |-> FALSE]

Init ==
    /\ eic = EicRaw
    /\ pwm = PwmNone
    /\ pac = "raw"
    /\ osc8m = [s \in Osc8mSlots |-> Osc8mNone]
    /\ osc32k = Osc32kNone
    /\ xosc = XoscNone
    /\ xosc32k = Xosc32kNone
    /\ dpll = DpllNone
    /\ pclk = [s \in PclkSlots |-> PclkNone]
    /\ gclk = [g \in GclkIds |-> GclkNone]
    /\ osculp = [base |-> UlpNone, osculp32k |-> UlpNone, osculp1k |-> UlpNone]
    /\ apb = [a \in ApbIds |-> "none"]
    /\ hw = HwReset
    /\ rmw = [op |-> "idle", id |-> "none", val |-> {}, irq |-> {}]
    /\ irqs = 0
    /\ wlog = <<>>
    /\ last = Last("none", "none", "none", 0)
    /\ pc = Idle

\* a reset state that does not count Gclk0 on the Osc8m
Por_osc8m_uncounted == [Osc8m_new EXCEPT !.st = "enabled"]

\* Clocks::osc8m: Enabled::new(Osc8m::new(Osc8mToken::new())), then inc by Gclk0::new
Por_osc8m == Inc([Osc8m_new EXCEPT !.st = "enabled"])

\* Tokens::osc8m: Osc8mToken::new()
Por_osc8m_token == Osc8mToken

\* pclk::Tokens::new(): one PclkToken per PclkId, Wdt included
Por_pclk_tokens(s) == PclkToken

\* a por_state that borrows the PAC structs and leaves them with the caller
PorStateKeepsPac ==
    /\ pac = "raw"
    /\ pac' = pac
    /\ osc8m' = [s \in Osc8mSlots |-> IF s = 1 THEN Por_osc8m ELSE Por_osc8m_token]
    /\ gclk' = [g \in GclkIds |->
                  IF g = 0 THEN [st |-> "enabled", n |-> 1, src |-> "osc8m",
                                 freq |-> Osc8m_freq(Por_osc8m)]
                           ELSE Inc([st |-> "enabled", n |-> 0, src |-> "osculp32k",
                                     freq |-> OscUlp32k_freq])]
    /\ osculp' = [base      |-> Inc(Inc([st |-> "enabled", n |-> 0])),
                  osculp32k |-> Inc([st |-> "enabled", n |-> 0]),
                  osculp1k  |-> [st |-> "enabled", n |-> 0]]
    /\ LET io == Pclk_enable_io(hw, "Wdt", 2)
       IN  hw' = io.regs /\ wlog' = io.log
    /\ pclk' = [s \in PclkSlots |->
                  IF s = "wdt0"
                  THEN [st |-> "enabled", n |-> 1, src |-> 2,
                        freq |-> Gclk_freq(gclk'[2])]
                  ELSE Por_pclk_tokens(s)]
    /\ dpll' = DpllToken
    /\ xosc' = XoscToken
    /\ xosc32k' = Xosc32kToken
    /\ osc32k' = Osc32kToken
    /\ apb' = [a \in ApbIds |-> IF a \in ApbClkIds THEN "clk"
                                ELSE IF a \in ApbTokenIds THEN "token" ELSE "none"]
    /\ last' = Last("por_state", "all", "ok", 0)
    /\ UNCHANGED <<eic, pwm, pc, rmw, irqs>>

\* por_state
PorState ==
    /\ pac = "raw"
    /\ pac' = "wrapped"
    /\ osc8m' = [s \in Osc8mSlots |-> IF s = 1 THEN Por_osc8m ELSE Por_osc8m_token]
    /\ gclk' = [g \in GclkIds |->
                  IF g = 0 THEN [st |-> "enabled", n |-> 1, src |-> "osc8m",
                                 freq |-> Osc8m_freq(Por_osc8m)]
                           ELSE Inc([st |-> "enabled", n |-> 0, src |-> "osculp32k",
                                     freq |-> OscUlp32k_freq])]
    /\ osculp' = [base      |-> Inc(Inc([st |-> "enabled", n |-> 0])),
                  osculp32k |-> Inc([st |-> "enabled", n |-> 0]),
                  osculp1k  |-> [st |-> "enabled", n |-> 0]]
    /\ LET io == Pclk_enable_io(hw, "Wdt", 2)
       IN  hw' = io.regs /\ wlog' = io.log
    /\ pclk' = [s \in PclkSlots |->
                  IF s = "wdt0"
                  THEN [st |-> "enabled", n |-> 1, src |-> 2,
                        freq |-> Gclk_freq(gclk'[2])]
                  ELSE Por_pclk_tokens(s)]
    /\ dpll' = DpllToken
    /\ xosc' = XoscToken
    /\ xosc32k' = Xosc32kToken
    /\ osc32k' = Osc32kToken
    /\ apb' = [a \in ApbIds |-> IF a \in ApbClkIds THEN "clk"
                                ELSE IF a \in ApbTokenIds THEN "token" ELSE "none"]
    /\ last' = Last("por_state", "all", "ok", 0)
    /\ UNCHANGED <<eic, pwm, pc, rmw, irqs>>

----------------------------------------------------------------------------
(* Specifications                                                          *)

\* inputs of the clock-tree specification
TreeXoscFreqs  == {4000000}
TreeRawPredivs == {0}
TreeGclkFreqs  == {2000000}
TreeLoopDivs   == {<<24, 0>>}
TreePclkSlots  == {"wdt", "dpll"}

\* the clock tree: the ownership operations of Osc8m, Xosc, the peripheral
\* channels and the DPLL, from the reset state on
Next ==
    \/ PorState
    \/ \E s \in Osc8mSlots : Osc8mNew(s)
    \/ \E s \in Osc8mSlots : Osc8mFree(s)
    \/ \E s \in Osc8mSlots : Osc8mEnable(s)
    \/ \E s \in Osc8mSlots : Osc8mDisable(s)
    \/ \E f \in TreeXoscFreqs : XoscFromClock(f)
    \/ XoscFree
    \/ XoscEnable
    \/ XoscDisable
    \/ \E f \in TreeGclkFreqs : Gclk0Reconfigure(f)
    \/ \E s \in TreePclkSlots, g \in GclkIds : PclkEnable(s, g)
    \/ \E s \in TreePclkSlots, g \in GclkIds : PclkDisable(s, g)
    \/ DpllFromPclk
    \/ DpllFreePclk
    \/ \E r \in TreeRawPredivs : DpllFromXosc(r)
    \/ DpllFreeXosc
    \/ \E d \in TreeLoopDivs : DpllSetLoopDiv(d[1], d[2])
    \/ DpllEnableOk
    \/ DpllEnableErr
    \/ DpllDisable

Spec == Init /\ [][Next]_vars

----------------------------------------------------------------------------
(* Claims C1 - C4: ownership and usage counters of the clock tree          *)

\* live consumers built from each source
Osc8mConsumers == IF gclk[0].st = "enabled" /\ gclk[0].src = "osc8m" THEN 1 ELSE 0
XoscConsumers  == IF dpll.st \in {"handle", "enabled"} /\ dpll.src = "xosc" THEN 1 ELSE 0
GclkConsumers(g) ==
    Cardinality({s \in PclkSlots : pclk[s].st \in {"pclk", "enabled"} /\ pclk[s].src = g})
    + (IF dpll.pclk.st = "pclk" /\ dpll.pclk.src = g THEN 1 ELSE 0)

\* C1: while a consumer built from a source exists (Gclk0 from Osc8m, a Dpll
\* from Xosc), the ENABLE bit of that source has not been cleared by disable().
C1_SourceOfLiveConsumerEnabled ==
    /\ Osc8mConsumers > 0 => hw.OSC8M.enable
    /\ XoscConsumers > 0 => hw.XOSC.enable

\* C2: disable() of EnabledXosc, EnabledDpll, EnabledOsc8m and EnabledOsc32k
\* is only ever performed on a handle whose usage counter is 0.
C2_DisableOnlyAtZero ==
    last.op \in {"Xosc::disable", "Dpll::disable", "Osc8m::disable", "Osc32k::disable"}
        => last.n = 0

\* C3: the usage counter of every enabled source is at least the number of
\* live consumers built from it; no operation resets it while consumers remain.
C3_CounterCoversConsumers ==
    /\ osc8m[1].st = "enabled" => osc8m[1].n >= Osc8mConsumers
    /\ xosc.st = "enabled" => xosc.n >= XoscConsumers
    /\ \A g \in GclkIds : gclk[g].st = "enabled" => gclk[g].n >= GclkConsumers(g)

\* tokens, disabled handles and enabled handles of one identity
Osc8mOwners == Cardinality({s \in Osc8mSlots : osc8m[s].st # "none"})
PclkOwners(P) ==
    Cardinality({s \in PclkSlots : PclkIdOf(s) = P /\ pclk[s].st # "none"})
    + (IF P = "DpllId" /\ dpll.pclk.st # "none" THEN 1 ELSE 0)

\* C4: after por_state and any sequence of operations there is at most one
\* token-or-handle per clock identity (Clocks and Tokens are disjoint).
C4_OneOwnerPerIdentity ==
    /\ Osc8mOwners <= 1
    /\ \A P \in {PclkIdOf(s) : s \in PclkSlots} : PclkOwners(P) <= 1

----------------------------------------------------------------------------
(* The Dpll with its three kinds of source                                 *)

DpllXoscFreqs  == {4000000}
DpllRawPredivs == {0, 1, 1023, 1024}
DpllGclkFreqs  == {32000, 2000000, 3000000}
DpllLoopDivs   == {<<48, 0>>, <<49, 0>>, <<16, 0>>, <<23, 31>>, <<3000, 24>>,
                   <<4320, 0>>, <<0, 255>>}

NextDpll ==
    \/ PorState
    \/ \E f \in DpllXoscFreqs : XoscFromClock(f)
    \/ XoscEnable
    \/ XoscDisable
    \/ Xosc32kEnable
    \/ Xosc32kDisable
    \/ \E f \in DpllGclkFreqs : Gclk0Reconfigure(f)
    \/ \E g \in GclkIds : PclkEnable("dpll", g)
    \/ \E g \in GclkIds : PclkDisable("dpll", g)
    \/ DpllFromPclk
    \/ DpllFreePclk
    \/ \E r \in DpllRawPredivs : DpllFromXosc(r)
    \/ DpllFreeXosc
    \/ DpllFromXosc32k
    \/ DpllFreeXosc32k
    \/ \E d \in DpllLoopDivs : DpllSetLoopDiv(d[1], d[2])
    \/ \E r \in DpllRawPredivs : DpllSetRawPrediv(r)
    \/ DpllEnableOk
    \/ DpllEnableErr
    \/ DpllEnablePanic
    \/ DpllDisable

SpecDpll == Init /\ [][NextDpll]_vars

----------------------------------------------------------------------------
(* Claims C5 - C8: Dpll::enable and Dpll::freq                             *)

EnableReturned(res) == last.op = "Dpll::enable" /\ last.res = res

\* C5: when Dpll::enable rejects a configuration, the step that returns Err
\* leaves every configuration field of the Dpll, its token and its source or
\* Pclk ownership unchanged and writes no hardware register; the Dpll is
\* still a (disabled) handle, so set_loop_div and enable can be called again.
C5_EnableErrChangesNothing ==
    [][(last'.op = "Dpll::enable" /\ last'.res = "Err")
          => /\ dpll' = dpll /\ dpll.st = "handle"
             /\ hw' = hw /\ wlog' = <<>>
             /\ UNCHANGED <<pc, xosc, xosc32k, pclk, gclk>>]_vars

\* a rejected Dpll that still holds its Pclk
C5_Witness ==
    /\ EnableReturned("Err")
    /\ dpll.st = "handle" /\ dpll.src = "pclk" /\ dpll.pclk.st = "pclk"

\* the upper end of the input window in the documentation of from_pclk and
\* from_xosc: 3.2 MHz
DocMaxInput == 3200000

DocInputOk(d) ==
    LET i == d.src_freq \div predivider(d.src, d.raw_prediv)
    IN  DpllMinInput <= i /\ i <= DocMaxInput

\* C6: Dpll::enable succeeds exactly when the predivider is in [1, 2048], the
\* effective input frequency is in [32 kHz, 3.2 MHz] and the output frequency
\* is in [48 MHz, 96 MHz].
C6_EnableOkIffWindows ==
    last.op = "Dpll::enable" =>
        (last.res = "Ok" <=> (PredividerOk(dpll) /\ DocInputOk(dpll) /\ OutputOk(dpll)))

TwoMHzNoDiv(mult) ==
    /\ dpll.src_freq = 2000000 /\ predivider(dpll.src, dpll.raw_prediv) = 1
    /\ dpll.frac = 0 /\ dpll.mult = mult

\* C7: with a 2 MHz input, no predivision and frac 0, multiplier 48 is
\* accepted and the enabled Dpll reports 96,000,000 Hz, multiplier 49 is
\* rejected, and every configuration whose output is below 48 MHz is
\* rejected.
C7_OutputWindowInclusiveAndTight ==
    last.op = "Dpll::enable" /\ last.res \in {"Ok", "Err"} =>
        /\ TwoMHzNoDiv(48) =>
              /\ last.res = "Ok" /\ dpll.st = "enabled"
              /\ Dpll_freq(dpll) = U32Mul(96000000, 1)
        /\ TwoMHzNoDiv(49) => last.res = "Err"
        /\ (~Dpll_freq(dpll).ovf /\ U32Contains(0, 47999999, Dpll_freq(dpll)))
              => last.res = "Err"

\* the 96 MHz configuration, accepted
C7_Witness == EnableReturned("Ok") /\ TwoMHzNoDiv(48) /\ dpll.st = "enabled"

U32Less(a, b) == a.hi < b.hi \/ (a.hi = b.hi /\ a.lo < b.lo)

\* C8: Dpll::freq is effective_input * (int + frac/32) with the fractional
\* part contributing: 32 kHz with int 3000 and frac 24 reports 96.024 MHz, and
\* any frac in 1..31 reports strictly more than frac 0.
C8_FracContributes ==
    dpll.st \in {"handle", "enabled"} =>
        /\ (dpll.src_freq = 32000 /\ predivider(dpll.src, dpll.raw_prediv) = 1
            /\ dpll.mult = 3000 /\ dpll.frac = 24)
              => Dpll_freq(dpll) = U32Mul(96024000, 1)
        /\ (dpll.frac \in 1..31 /\ ~Dpll_freq(dpll).ovf)
              => U32Less(Dpll_freq([dpll EXCEPT !.frac = 0]), Dpll_freq(dpll))

----------------------------------------------------------------------------
(* The APB gates, single-threaded, over any prior mask contents            *)

ApbActiveIds  == {"Wdt", "Eic", "Dmac", "Usb", "Sercom0", "I2S"}
ApbMaskValues == {{}, Bits32, {b \in Bits32 : b % 2 = 0}}

NextApb ==
    \/ \E reg \in MaskRegs, v \in ApbMaskValues : PmWrite(reg, v)
    \/ PorState
    \/ \E a \in ApbActiveIds : ApbEnable(a)
    \/ \E a \in ApbActiveIds : ApbDisable(a)

SpecApb == Init /\ [][NextApb]_vars

\* the mask registers other than the one of ApbId a
OtherMasks(a) == {MaskName(r) : r \in MaskRegs \ {ApbBit[a][1]}}

\* bits of a mask value other than the bit of ApbId a
OtherBits(v, a) == v \ {ApbBit[a][2]}

ApbFrame(a) ==
    /\ OtherBits(hw'[MaskName(ApbBit[a][1])], a) = OtherBits(hw[MaskName(ApbBit[a][1])], a)
    /\ \A m \in OtherMasks(a) : hw'[m] = hw[m]

\* C9: Apb::enable and Apb::disable change only the mask bit of the targeted
\* peripheral: every other bit of the same mask register and both other mask
\* registers are unchanged, enable leaves the target bit 1 and disable
\* leaves it 0, whatever the masks held before.
C9_ApbTouchesOneBit ==
    [][\A a \in ApbIds :
          /\ (apb[a] = "token" /\ apb'[a] = "clk")
                => ApbFrame(a) /\ ApbBit[a][2] \in hw'[MaskName(ApbBit[a][1])]
          /\ (apb[a] = "clk" /\ apb'[a] = "token")
                => ApbFrame(a) /\ ApbBit[a][2] \notin hw'[MaskName(ApbBit[a][1])]]_vars

\* Usb (bit 5) has been enabled in an APBBMASK that held the even bits and
\* no odd bit: it now holds the even bits and bit 5
C9_Witness ==
    /\ last.op = "Apb::enable" /\ last.id = "Usb" /\ apb["Usb"] = "clk"
    /\ hw["APBBMASK"] = {b \in Bits32 : b % 2 = 0} \cup {5}

----------------------------------------------------------------------------
(* The APB gates with an interrupt taken inside modify()                   *)

IrqApbIds == {"Usb", "Sercom0", "Wdt"}
IrqBits   == {7, 8}

NextApbIrq ==
    \/ PorState
    \/ \E a \in IrqApbIds, op \in {"enable", "disable"} : ApbRead(a, op)
    \/ ApbWrite
    \/ \E reg \in MaskRegs, b \in IrqBits, v \in BOOLEAN : Irq(reg, b, v)

SpecApbIrq == Init /\ [][NextApbIrq]_vars

\* C10: the read-modify-write of Apb::enable / Apb::disable is atomic with
\* respect to interrupt-context writes to the same mask register: a change an
\* interrupt handler makes to another bit between the read and the write is
\* still there after the write.
C10_IrqChangeNotLost ==
    [][(rmw.op # "idle" /\ rmw'.op = "idle")
          => \A x \in rmw.irq :
                x[1] # ApbBit[rmw.id][2]
                   => (x[1] \in hw'[MaskName(ApbBit[rmw.id][1])] <=> x[2])]_vars

----------------------------------------------------------------------------
(* Claims C11 - C13: the peripheral channel clock                          *)

\* C11: Pclk::enable writes the source selector (GEN) and the enable bit
\* (CLKEN) of the channel in one CLKCTRL transaction: no transaction of the
\* operation writes the selector without the enable bit.
C11_PclkEnableOneTransaction ==
    last.op = "Pclk::enable" =>
        /\ Len(wlog) = 1
        /\ \A i \in 1..Len(wlog) :
              "gen" \in wlog[i].fields => "clken" \in wlog[i].fields

\* the usage counters of the generators other than g are unchanged
OtherGclksUnchanged(g) == \A h \in GclkIds \ {g} : gclk'[h] = gclk[h]

\* C12: Pclk::enable consumes the PclkToken and raises the usage counter of
\* its source by exactly 1; Pclk::disable clears the enable bit of the
\* channel, gives back the PclkToken and lowers the counter of the source by
\* exactly 1, so enable followed by disable restores token and counter.
C12_PclkCountsItsSource ==
    [][\A s \in PclkSlots :
          /\ (pclk[s].st = "token" /\ pclk'[s].st = "pclk")
                => /\ gclk'[pclk'[s].src] = Inc(gclk[pclk'[s].src])
                   /\ OtherGclksUnchanged(pclk'[s].src)
          /\ (pclk[s].st = "pclk" /\ pclk'[s].st = "token")
                => /\ pclk'[s] = PclkToken
                   /\ gclk'[pclk[s].src] = Dec(gclk[pclk[s].src])
                   /\ OtherGclksUnchanged(pclk[s].src)
                   /\ ~hw'.chan[DynPclkId(PclkIdOf(s))].clken]_vars

\* the Dpll channel has been enabled on Gclk0 and disabled again: the token is
\* back and the counter of Gclk0 is the 1 it had at reset
C12_Witness ==
    /\ last.op = "Pclk::disable" /\ last.id = "DpllId" /\ last.n = 2
    /\ pclk["dpll"] = PclkToken /\ gclk[0].n = 1
    /\ ~hw.chan[DynPclkId("DpllId")].clken

\* C13: Pclk::freq returns the frequency its source reported when
\* Pclk::enable was called, and no later operation changes the stored value,
\* neither while the Pclk is held by the caller nor while a Dpll holds it.
C13_PclkFreqFixedAtEnable ==
    [][/\ \A s \in PclkSlots :
             /\ (pclk[s].st = "token" /\ pclk'[s].st = "pclk")
                   => Pclk_freq(pclk'[s]) = Gclk_freq(gclk[pclk'[s].src])
             /\ (pclk[s].st \in {"pclk", "enabled"} /\ pclk'[s].st = pclk[s].st)
                   => Pclk_freq(pclk'[s]) = Pclk_freq(pclk[s])
       /\ (pclk["dpll"].st = "pclk" /\ dpll'.pclk.st = "pclk")
             => Pclk_freq(dpll'.pclk) = Pclk_freq(pclk["dpll"])
       /\ (dpll.pclk.st = "pclk" /\ dpll'.pclk.st = "pclk")
             => Pclk_freq(dpll'.pclk) = Pclk_freq(dpll.pclk)
       /\ (dpll.pclk.st = "pclk" /\ pclk'["dpll"].st = "pclk")
             => Pclk_freq(pclk'["dpll"]) = Pclk_freq(dpll.pclk)]_vars

\* a Pclk enabled on the reconfigured Gclk0, later moved into a Dpll that was
\* then configured and enabled, still reports the frequency taken at enable
C13_Witness ==
    /\ dpll.st = "enabled" /\ dpll.pclk.st = "pclk" /\ dpll.pclk.src = 0
    /\ Pclk_freq(dpll.pclk) = 2000000

----------------------------------------------------------------------------
(* Configuration methods of the disabled handles                           *)

\* Osc8m::on_demand
Osc8mOnDemand(s, on_demand) ==
    /\ osc8m[s].st = "handle"
    /\ osc8m' = [osc8m EXCEPT ![s].on_demand_mode = on_demand]
    /\ wlog' = <<>>
    /\ last' = Last("Osc8m::on_demand", "osc8m", "ok", 0)
    /\ UNCHANGED <<eic, pwm, pc, pac, osc32k, xosc, xosc32k, dpll, pclk, gclk, osculp, apb,
                   hw, rmw, irqs>>

\* Osc8m::run_standby
Osc8mRunStandby(s, run_standby) ==
    /\ osc8m[s].st = "handle"
    /\ osc8m' = [osc8m EXCEPT ![s].run_standby = run_standby]
    /\ wlog' = <<>>
    /\ last' = Last("Osc8m::run_standby", "osc8m", "ok", 0)
    /\ UNCHANGED <<eic, pwm, pc, pac, osc32k, xosc, xosc32k, dpll, pclk, gclk, osculp, apb,
                   hw, rmw, irqs>>

\* Osc8m::prescaler
Osc8mPrescaler(s, prescaler) ==
    /\ osc8m[s].st = "handle"
    /\ osc8m' = [osc8m EXCEPT ![s].prescaler = prescaler]
    /\ wlog' = <<>>
    /\ last' = Last("Osc8m::prescaler", "osc8m", "ok", 0)
    /\ UNCHANGED <<eic, pwm, pc, pac, osc32k, xosc, xosc32k, dpll, pclk, gclk, osculp, apb,
                   hw, rmw, irqs>>

\* Osc8m::set_calibration: self.token.set_calibration(calib), a modify() of
\* the 12-bit CALIB field of OSC8M
Osc8mSetCalibration(s, calib) ==
    /\ osc8m[s].st = "handle"
    /\ LET io == Modify(NoIo(hw), "OSC8M", [calib |-> calib % 4096])
       IN  hw' = io.regs /\ wlog' = io.log
    /\ last' = Last("Osc8m::set_calibration", "osc8m", "ok", 0)
    /\ UNCHANGED <<eic, pwm, pc, pac, osc8m, osc32k, xosc, xosc32k, dpll, pclk, gclk, osculp,
                   apb, rmw, irqs>>

FreqRanges == {"Range4To6Mhz", "Range6To8Mhz", "Range8To11Mhz", "Range11To15Mhz"}

\* impl From<FreqRange> for u8
FreqRangeBits(r) ==
    CASE r = "Range4To6Mhz" -> 0 [] r = "Range6To8Mhz" -> 1
      [] r = "Range8To11Mhz" -> 2 [] r = "Range11To15Mhz" -> 3

\* Osc8m::set_frequency_range: self.token.set_frequency_range(freq_range)
Osc8mSetFrequencyRange(s, freq_range) ==
    /\ osc8m[s].st = "handle"
    /\ LET io == Modify(NoIo(hw), "OSC8M", [frange |-> FreqRangeBits(freq_range)])
       IN  hw' = io.regs /\ wlog' = io.log
    /\ last' = Last("Osc8m::set_frequency_range", "osc8m", "ok", 0)
    /\ UNCHANGED <<eic, pwm, pc, pac, osc8m, osc32k, xosc, xosc32k, dpll, pclk, gclk, osculp,
                   apb, rmw, irqs>>

\* Osc32k::start_up
Osc32kStartUp(start_up) ==
    /\ osc32k.st = "handle"
    /\ osc32k' = [osc32k EXCEPT !.start_up = start_up]
    /\ wlog' = <<>>
    /\ last' = Last("Osc32k::start_up", "osc32k", "ok", 0)
    /\ UNCHANGED <<eic, pwm, pc, pac, osc8m, xosc, xosc32k, dpll, pclk, gclk, osculp, apb,
                   hw, rmw, irqs>>

\* Osc32k::on_demand
Osc32kOnDemand(on_demand) ==
    /\ osc32k.st = "handle"
    /\ osc32k' = [osc32k EXCEPT !.on_demand_mode = on_demand]
    /\ wlog' = <<>>
    /\ last' = Last("Osc32k::on_demand", "osc32k", "ok", 0)
    /\ UNCHANGED <<eic, pwm, pc, pac, osc8m, xosc, xosc32k, dpll, pclk, gclk, osculp, apb,
                   hw, rmw, irqs>>

\* Osc32k::run_standby
Osc32kRunStandby(run_standby) ==
    /\ osc32k.st = "handle"
    /\ osc32k' = [osc32k EXCEPT !.run_standby = run_standby]
    /\ wlog' = <<>>
    /\ last' = Last("Osc32k::run_standby", "osc32k", "ok", 0)
    /\ UNCHANGED <<eic, pwm, pc, pac, osc8m, xosc, xosc32k, dpll, pclk, gclk, osculp, apb,
                   hw, rmw, irqs>>

\* Osc32k::set_calibration: self.token.set_calibration(calib), a modify() of
\* the 7-bit CALIB field of OSC32K
Osc32kSetCalibration(calib) ==
    /\ osc32k.st = "handle"
    /\ LET io == Modify(NoIo(hw), "OSC32K", [calib |-> calib % 128])
       IN  hw' = io.regs /\ wlog' = io.log
    /\ last' = Last("Osc32k::set_calibration", "osc32k", "ok", 0)
    /\ UNCHANGED <<eic, pwm, pc, pac, osc8m, osc32k, xosc, xosc32k, dpll, pclk, gclk, osculp,
                   apb, rmw, irqs>>

\* Xosc::set_start_up
XoscSetStartUp(start_up) ==
    /\ xosc.st = "handle"
    /\ xosc' = [xosc EXCEPT !.start_up_cycles = start_up]
    /\ wlog' = <<>>
    /\ last' = Last("Xosc::set_start_up", "xosc", "ok", 0)
    /\ UNCHANGED <<eic, pwm, pc, pac, osc8m, osc32k, xosc32k, dpll, pclk, gclk, osculp, apb,
                   hw, rmw, irqs>>

\* Xosc::set_on_demand
XoscSetOnDemand(on_demand) ==
    /\ xosc.st = "handle"
    /\ xosc' = [xosc EXCEPT !.on_demand = on_demand]
    /\ wlog' = <<>>
    /\ last' = Last("Xosc::set_on_demand", "xosc", "ok", 0)
    /\ UNCHANGED <<eic, pwm, pc, pac, osc8m, osc32k, xosc32k, dpll, pclk, gclk, osculp, apb,
                   hw, rmw, irqs>>

\* Xosc::set_run_standby
XoscSetRunStandby(run_standby) ==
    /\ xosc.st = "handle"
    /\ xosc' = [xosc EXCEPT !.run_standby = run_standby]
    /\ wlog' = <<>>
    /\ last' = Last("Xosc::set_run_standby", "xosc", "ok", 0)
    /\ UNCHANGED <<eic, pwm, pc, pac, osc8m, osc32k, xosc32k, dpll, pclk, gclk, osculp, apb,
                   hw, rmw, irqs>>

\* Xosc<CrystalMode>::set_amplitude_loop_control
XoscSetAmplitudeLoopControl(ampgc) ==
    /\ xosc.st = "handle" /\ xosc.mode = "CrystalMode"
    /\ xosc' = [xosc EXCEPT !.amplitude_loop_control = ampgc]
    /\ wlog' = <<>>
    /\ last' = Last("Xosc::set_amplitude_loop_control", "xosc", "ok", 0)
    /\ UNCHANGED <<eic, pwm, pc, pac, osc8m, osc32k, xosc32k, dpll, pclk, gclk, osculp, apb,
                   hw, rmw, irqs>>

\* Xosc<CrystalMode>::set_gain
XoscSetGain(gain) ==
    /\ xosc.st = "handle" /\ xosc.mode = "CrystalMode"
    /\ xosc' = [xosc EXCEPT !.gain = gain]
    /\ wlog' = <<>>
    /\ last' = Last("Xosc::set_gain", "xosc", "ok", 0)
    /\ UNCHANGED <<eic, pwm, pc, pac, osc8m, osc32k, xosc32k, dpll, pclk, gclk, osculp, apb,
                   hw, rmw, irqs>>

\* Dpll::set_lock_bypass
DpllSetLockBypass(bypass) ==
    /\ dpll.st = "handle"
    /\ dpll' = [dpll EXCEPT !.lock_bypass = bypass]
    /\ wlog' = <<>>
    /\ last' = Last("Dpll::set_lock_bypass", "dpll", "ok", 0)
    /\ UNCHANGED <<eic, pwm, pc, pac, osc8m, osc32k, xosc, xosc32k, pclk, gclk, osculp, apb,
                   hw, rmw, irqs>>

\* Dpll::set_wake_up_fast
DpllSetWakeUpFast(wuf) ==
    /\ dpll.st = "handle"
    /\ dpll' = [dpll EXCEPT !.wake_up_fast = wuf]
    /\ wlog' = <<>>
    /\ last' = Last("Dpll::set_wake_up_fast", "dpll", "ok", 0)
    /\ UNCHANGED <<eic, pwm, pc, pac, osc8m, osc32k, xosc, xosc32k, pclk, gclk, osculp, apb,
                   hw, rmw, irqs>>

\* Dpll::set_on_demand
DpllSetOnDemand(on_demand) ==
    /\ dpll.st = "handle"
    /\ dpll' = [dpll EXCEPT !.on_demand = on_demand]
    /\ wlog' = <<>>
    /\ last' = Last("Dpll::set_on_demand", "dpll", "ok", 0)
    /\ UNCHANGED <<eic, pwm, pc, pac, osc8m, osc32k, xosc, xosc32k, pclk, gclk, osculp, apb,
                   hw, rmw, irqs>>

----------------------------------------------------------------------------
(* The configuration specification: the four configurable sources, each    *)
(* with its constructors, configuration methods, enable and disable.  The  *)
(* sources share no register and no handle field; a behaviour works on one *)
(* of Osc8m, Osc32k and Xosc/Dpll and leaves the others as the reset left  *)
(* them, which keeps the state space the sum of theirs.                    *)

\* what por_state left in an Osc8m slot
Osc8mAtReset(s) == osc8m[s] = IF s = 1 THEN Por_osc8m ELSE Por_osc8m_token

Osc8mUntouched ==
    /\ \A s \in Osc8mSlots : Osc8mAtReset(s)
    /\ hw.OSC8M = HwReset.OSC8M

Osc32kUntouched == osc32k = Osc32kToken /\ hw.OSC32K = HwReset.OSC32K

XoscUntouched == xosc = XoscToken /\ hw.XOSC = HwReset.XOSC

DpllUntouched ==
    /\ dpll = DpllToken
    /\ hw.DPLLCTRLA = HwReset.DPLLCTRLA
    /\ hw.DPLLCTRLB = HwReset.DPLLCTRLB
    /\ hw.DPLLRATIO = HwReset.DPLLRATIO

OnlyOsc8m(s) ==
    /\ Osc32kUntouched /\ XoscUntouched /\ DpllUntouched
    /\ \A t \in Osc8mSlots \ {s} : Osc8mAtReset(t)
OnlyOsc32k == Osc8mUntouched /\ XoscUntouched /\ DpllUntouched
OnlyXosc   == Osc8mUntouched /\ Osc32kUntouched /\ DpllUntouched
OnlyDpll   == Osc8mUntouched /\ Osc32kUntouched

\* inputs of the configuration specification
CfgPrescalers == Prescalers
CfgOnDemand   == {FALSE}
CfgRunStandby == {TRUE}
CfgCalibs     == {4097}
CfgFreqRanges == {"Range11To15Mhz"}
CfgStartups32k == {"CYCLE3"}
CfgCalibs32k  == {129}
CfgXoscFreqs  == {4000000}
CfgXoscStartups == {"CYCLE32768"}
CfgGains      == {"FourMHz"}
CfgRawPredivs == {0, 1}
CfgLoopDivs   == {<<24, 0>>, <<16, 0>>}

NextCfg ==
    \/ PorState
    \/ \E s \in Osc8mSlots : OnlyOsc8m(s) /\ Osc8mNew(s)
    \/ \E s \in Osc8mSlots : OnlyOsc8m(s) /\ Osc8mFree(s)
    \/ \E s \in Osc8mSlots, b \in CfgOnDemand : OnlyOsc8m(s) /\ Osc8mOnDemand(s, b)
    \/ \E s \in Osc8mSlots, b \in CfgRunStandby : OnlyOsc8m(s) /\ Osc8mRunStandby(s, b)
    \/ \E s \in Osc8mSlots, p \in CfgPrescalers : OnlyOsc8m(s) /\ Osc8mPrescaler(s, p)
    \/ \E s \in Osc8mSlots, c \in CfgCalibs : OnlyOsc8m(s) /\ Osc8mSetCalibration(s, c)
    \/ \E s \in Osc8mSlots, r \in CfgFreqRanges : OnlyOsc8m(s) /\ Osc8mSetFrequencyRange(s, r)
    \/ \E s \in Osc8mSlots : OnlyOsc8m(s) /\ Osc8mEnable(s)
    \/ \E s \in Osc8mSlots : OnlyOsc8m(s) /\ Osc8mDisable(s)
    \/ OnlyOsc32k /\ Osc32kNew
    \/ OnlyOsc32k /\ Osc32kFree
    \/ OnlyOsc32k /\ \E u \in CfgStartups32k : Osc32kStartUp(u)
    \/ OnlyOsc32k /\ \E b \in CfgOnDemand : Osc32kOnDemand(b)
    \/ OnlyOsc32k /\ \E b \in CfgRunStandby : Osc32kRunStandby(b)
    \/ OnlyOsc32k /\ \E c \in CfgCalibs32k : Osc32kSetCalibration(c)
    \/ OnlyOsc32k /\ Osc32kEnable
    \/ OnlyOsc32k /\ Osc32kDisable
    \/ OnlyDpll /\ \E f \in CfgXoscFreqs : XoscFromClock(f)
    \/ OnlyXosc /\ \E f \in CfgXoscFreqs : XoscFromCrystal(f)
    \/ OnlyDpll /\ XoscFree
    \/ OnlyXosc /\ \E u \in CfgXoscStartups : XoscSetStartUp(u)
    \/ OnlyXosc /\ \E b \in CfgOnDemand : XoscSetOnDemand(b)
    \/ OnlyXosc /\ \E b \in CfgRunStandby : XoscSetRunStandby(b)
    \/ OnlyXosc /\ \E b \in BOOLEAN : XoscSetAmplitudeLoopControl(b)
    \/ OnlyXosc /\ \E g \in CfgGains : XoscSetGain(g)
    \/ OnlyDpll /\ XoscEnable
    \/ OnlyDpll /\ XoscDisable
    \/ OnlyDpll /\ \E r \in CfgRawPredivs : DpllFromXosc(r)
    \/ OnlyDpll /\ DpllFreeXosc
    \/ OnlyDpll /\ \E d \in CfgLoopDivs : DpllSetLoopDiv(d[1], d[2])
    \/ OnlyDpll /\ \E r \in CfgRawPredivs : DpllSetRawPrediv(r)
    \/ OnlyDpll /\ \E b \in BOOLEAN : DpllSetLockBypass(b)
    \/ OnlyDpll /\ \E b \in BOOLEAN : DpllSetWakeUpFast(b)
    \/ OnlyDpll /\ \E b \in CfgOnDemand : DpllSetOnDemand(b)
    \/ OnlyDpll /\ DpllEnableOk
    \/ OnlyDpll /\ DpllEnableErr
    \/ OnlyDpll /\ DpllDisable

SpecCfg == Init /\ [][NextCfg]_vars

----------------------------------------------------------------------------
(* Claims C14 - C17: enable, disable and the configuration methods         *)

\* the stored fields of the handles, with the frequency they report
Osc8mStored(o)  == <<o.run_standby, o.on_demand_mode, o.prescaler, Osc8m_freq(o)>>
Osc32kStored(o) == <<o.run_standby, o.on_demand_mode, o.start_up>>
XoscStored(o)   == <<o.mode, o.src_freq, o.start_up_cycles, o.on_demand,
                     o.run_standby, o.gain, o.amplitude_loop_control, Xosc_freq(o)>>
DpllStored(d)   == <<d.src, d.src_freq, d.raw_prediv, d.mult, d.frac, d.lock_bypass,
                     d.wake_up_fast, d.on_demand, d.pclk, Dpll_freq(d)>>

\* a step that takes a handle into, along or out of its enabled state
ThroughEnabled(a, b) ==
    /\ a.st \in {"handle", "enabled"} /\ b.st \in {"handle", "enabled"}
    /\ "enabled" \in {a.st, b.st}

\* C14: enable() and disable() of Osc8m, Osc32k, Xosc and Dpll hand the
\* configuration through unchanged: from the step that enables a handle to
\* the step that disables it, every stored field and the reported frequency
\* stay what they were before enable().
C14_EnableDisableKeepConfig ==
    [][/\ \A s \in Osc8mSlots :
             ThroughEnabled(osc8m[s], osc8m'[s])
                 => Osc8mStored(osc8m'[s]) = Osc8mStored(osc8m[s])
       /\ ThroughEnabled(osc32k, osc32k') => Osc32kStored(osc32k') = Osc32kStored(osc32k)
       /\ ThroughEnabled(xosc, xosc') => XoscStored(xosc') = XoscStored(xosc)
       /\ ThroughEnabled(dpll, dpll') => DpllStored(dpll') = DpllStored(dpll)]_vars

C14_Witness ==
    /\ last.op = "Dpll::disable"
    /\ dpll.st = "handle" /\ dpll.mult = 24 /\ dpll.lock_bypass /\ ~dpll.on_demand
    /\ xosc.gain = "FourMHz" /\ xosc.n = 1

\* an enable() that wrote the hardware has returned
EnableActed ==
    \/ last.op \in {"Osc8m::enable", "Osc32k::enable", "Xosc::enable"}
    \/ last.op = "Dpll::enable" /\ last.res = "Ok"

\* the register holding the master ENABLE bit of the source last.id names
EnableReg ==
    CASE last.id = "osc8m" -> "OSC8M" [] last.id = "osc32k" -> "OSC32K"
      [] last.id = "xosc" -> "XOSC" [] OTHER -> "DPLLCTRLA"

\* the configuration fields enable() has to bring to the hardware
ConfigFields ==
    CASE last.id = "osc8m"  -> {"ondemand", "runstdby", "presc"}
      [] last.id = "osc32k" -> {"ondemand", "runstdby", "startup", "en32k"}
      [] last.id = "xosc"   -> {"xtalen", "startup", "ondemand", "runstdby",
                                "ampgc", "gain"}
      [] OTHER -> {"refclk", "ldr", "ldrfrac", "lbypass", "wuf", "ondemand"}
                      \cup (IF dpll.src = "xosc" THEN {"div"} ELSE {})

\* XoscToken::reset writes the whole register, ENABLE cleared
IsResetWrite(t) == t.reg = "XOSC" /\ t.fields = DOMAIN XoscResetValue

\* C15: in every enable() of Osc8m, Osc32k, Xosc and Dpll the transaction
\* that sets the master ENABLE bit is the last one: it writes ENABLE alone,
\* every configuration field is written by an earlier transaction, no
\* earlier transaction sets ENABLE, and the bit is set when enable() returns.
C15_EnableBitWrittenLast ==
    EnableActed =>
        /\ Len(wlog) > 1
        /\ wlog[Len(wlog)] = [reg |-> EnableReg, fields |-> {"enable"}]
        /\ hw[EnableReg].enable
        /\ \A i \in 1..(Len(wlog) - 1) :
              "enable" \in wlog[i].fields => IsResetWrite(wlog[i]) /\ i = 1
        /\ \A f \in ConfigFields :
              \E i \in 1..(Len(wlog) - 1) :
                  f \in wlog[i].fields /\ ~IsResetWrite(wlog[i])

C15_Witness ==
    /\ last.op = "Xosc::enable" /\ xosc.mode = "CrystalMode"
    /\ Len(wlog) = 8 /\ hw.XOSC.enable /\ hw.XOSC.gain = GainBits("FourMHz")

\* the place of a register transaction in the order: 0 reset of the old
\* state, 1 source selection, 2 dividers and ratios, 3 mode flags, 4 the
\* enable bit; -1 for the fields the order does not name (start-up time,
\* gain, amplitude control, the 32 kHz output enable)
Phase(t) ==
    CASE IsResetWrite(t) -> 0
      [] t.fields \subseteq {"xtalen", "refclk"} -> 1
      [] t.fields \subseteq {"presc", "div", "ldr", "ldrfrac"} -> 2
      [] t.fields \subseteq {"ondemand", "runstdby", "lbypass", "wuf"} -> 3
      [] t.fields = {"enable"} -> 4
      [] OTHER -> -1

\* C16: every enable() writes in the order reset, source selection,
\* dividers/ratios, mode flags, enable bit.
C16_EnableWriteOrder ==
    EnableActed =>
        \A i, j \in 1..Len(wlog) :
            (i < j /\ Phase(wlog[i]) >= 0 /\ Phase(wlog[j]) >= 0)
                => Phase(wlog[i]) <= Phase(wlog[j])

\* the configuration methods of the disabled handles
ConfigOps ==
    {"Osc8m::on_demand", "Osc8m::run_standby", "Osc8m::prescaler",
     "Osc8m::set_calibration", "Osc8m::set_frequency_range",
     "Osc32k::start_up", "Osc32k::on_demand", "Osc32k::run_standby",
     "Osc32k::set_calibration",
     "Xosc::set_start_up", "Xosc::set_on_demand", "Xosc::set_run_standby",
     "Xosc::set_amplitude_loop_control", "Xosc::set_gain",
     "Dpll::set_loop_div", "Dpll::set_raw_prediv", "Dpll::set_lock_bypass",
     "Dpll::set_wake_up_fast", "Dpll::set_on_demand"}

\* C17: a configuration method of a disabled Osc8m, Osc32k, Xosc or Dpll
\* handle performs no register transaction and leaves every hardware
\* register as it was.
C17_ConfigCallsLeaveHardware ==
    [][last'.op \in ConfigOps => wlog' = <<>> /\ hw' = hw]_vars

----------------------------------------------------------------------------
(* Claims C18 - C20: the reset state                                       *)

\* C18: por_state runs at most once.  It takes the PAC structs by value, so
\* a por_state step starts with the structs in the caller's hands and ends
\* with them inside Pac, and no safe operation hands them back.
C18_PorStateAtMostOnce ==
    [][/\ last'.op = "por_state" => pac = "raw" /\ pac' = "wrapped"
       /\ pac # "raw" => pac' # "raw"]_vars

C18_Witness ==
    /\ pac = "wrapped" /\ last.op = "Pclk::disable"
    /\ osc8m[1].st = "enabled" /\ osc8m[2].st = "handle"

\* inputs of the ultra-low-power oscillator specification
UlpCalibs == {0, 17, 31, 255}

\* the ultra-low-power oscillator: calibration and write lock of the base,
\* consumers coming and going on its two outputs
NextUlp ==
    \/ PorState
    \/ \E c \in UlpCalibs : OscUlpBaseSetCalibration(c)
    \/ OscUlpBaseWriteLock
    \/ \E k \in UlpOutputs : OscUlpInc(k)
    \/ \E k \in UlpOutputs : OscUlpDec(k)

SpecUlp == Init /\ [][NextUlp]_vars

\* C19: whatever the calibration of the base oscillator and the usage
\* counters of the outputs, EnabledOscUlp32k reports 32768 Hz and
\* EnabledOscUlp1k reports 1024 Hz.
C19_UlpFrequenciesFixed ==
    /\ osculp.osculp32k.st = "enabled" => OscUlp32k_freq = 32768
    /\ osculp.osculp1k.st = "enabled" => OscUlp1k_freq = 1024

C19_Witness ==
    /\ last.op = "OscUlpBase::set_calibration" /\ hw.OSCULP32K.calib = 31
    /\ osculp.osculp32k.st = "enabled" /\ osculp.osculp32k.n = 2
    /\ osculp.osculp1k.st = "enabled" /\ osculp.osculp1k.n = 1

\* the division factor a Prescaler variant stands for
PrescalerDivisor(p) ==
    CASE p = "Prescaler1" -> 1 [] p = "Prescaler2" -> 2
      [] p = "Prescaler4" -> 4 [] p = "Prescaler8" -> 8

\* C20: the Osc8m that por_state returns reports 8,000,000 Hz, and every
\* Osc8m handle reports 8 MHz divided by its prescaler.
C20_Osc8mFreqIs8MHzOverPrescaler ==
    /\ last.op = "por_state" => Osc8m_freq(osc8m[1]) = 8000000
    /\ \A s \in Osc8mSlots :
          osc8m[s].st \in {"handle", "enabled"}
              => Osc8m_freq(osc8m[s]) * PrescalerDivisor(osc8m[s].prescaler) = 8000000

----------------------------------------------------------------------------
(* Readiness: the status bits the hardware drives and the calls that read  *)
(* them                                                                    *)

\* reg.read(): one read transaction, no field written
Read(io, reg) ==
    [regs |-> io.regs, log |-> Append(io.log, [reg |-> reg, fields |-> {}])]

OscIds == {"xosc", "osc8m", "osc32k"}

\* the PCLKSR bit wait_ready of XoscToken / Osc8mToken / Osc32kToken polls
RdyBit(id) ==
    CASE id = "xosc" -> "xoscrdy" [] id = "osc8m" -> "osc8mrdy"
      [] id = "osc32k" -> "osc32krdy"

\* the register with the oscillator's ENABLE bit
OscReg(id) ==
    CASE id = "xosc" -> "XOSC" [] id = "osc8m" -> "OSC8M" [] id = "osc32k" -> "OSC32K"

\* the hardware raises the ready bit of an oscillator that is switched on
HwOscReady(id) ==
    /\ hw[OscReg(id)].enable /\ ~hw.PCLKSR[RdyBit(id)]
    /\ hw' = [hw EXCEPT !.PCLKSR[RdyBit(id)] = TRUE]
    /\ UNCHANGED <<eic, pwm, pc, pac, osc8m, osc32k, xosc, xosc32k, dpll, pclk, gclk, osculp,
                   apb, rmw, irqs, wlog, last>>

\* the hardware drops the ready bit of an oscillator that is switched off
HwOscStop(id) ==
    /\ ~hw[OscReg(id)].enable /\ hw.PCLKSR[RdyBit(id)]
    /\ hw' = [hw EXCEPT !.PCLKSR[RdyBit(id)] = FALSE]
    /\ UNCHANGED <<eic, pwm, pc, pac, osc8m, osc32k, xosc, xosc32k, dpll, pclk, gclk, osculp,
                   apb, rmw, irqs, wlog, last>>

DpllFlags == {"clkrdy", "lock"}

\* the hardware raises CLKRDY or LOCK of a DPLL that is switched on, each on
\* its own, and drops it when the DPLL is switched off
HwDpllStatus(flag) ==
    /\ hw.DPLLSTATUS[flag] # hw.DPLLCTRLA.enable
    /\ hw' = [hw EXCEPT !.DPLLSTATUS[flag] = hw.DPLLCTRLA.enable]
    /\ UNCHANGED <<eic, pwm, pc, pac, osc8m, osc32k, xosc, xosc32k, dpll, pclk, gclk, osculp,
                   apb, rmw, irqs, wlog, last>>

\* nb::Result of a status query
NbResult(bit_is_clear) == IF bit_is_clear THEN "WouldBlock" ELSE "Ok"

\* a query that answers from the other status flag
DpllToken_wait_until_ready_lock(regs) == NbResult(~regs.DPLLSTATUS.lock)

\* DpllToken::wait_until_ready
DpllToken_wait_until_ready(regs) == NbResult(~regs.DPLLSTATUS.clkrdy)

\* DpllToken::wait_until_locked
DpllToken_wait_until_locked(regs) == NbResult(~regs.DPLLSTATUS.lock)

\* EnabledDpll<I, N>::wait_until_ready
DpllWaitUntilReady ==
    /\ dpll.st = "enabled"
    /\ LET io == Read(NoIo(hw), "DPLLSTATUS")
       IN  /\ hw' = io.regs /\ wlog' = io.log
           /\ last' = Last("Dpll::wait_until_ready", "dpll",
                           DpllToken_wait_until_ready(io.regs), dpll.n)
    /\ UNCHANGED <<eic, pwm, pc, pac, osc8m, osc32k, xosc, xosc32k, dpll, pclk, gclk, osculp,
                   apb, rmw, irqs>>

\* EnabledDpll<I, N>::wait_until_locked
DpllWaitUntilLocked ==
    /\ dpll.st = "enabled"
    /\ LET io == Read(NoIo(hw), "DPLLSTATUS")
       IN  /\ hw' = io.regs /\ wlog' = io.log
           /\ last' = Last("Dpll::wait_until_locked", "dpll",
                           DpllToken_wait_until_locked(io.regs), dpll.n)
    /\ UNCHANGED <<eic, pwm, pc, pac, osc8m, osc32k, xosc, xosc32k, dpll, pclk, gclk, osculp,
                   apb, rmw, irqs>>

\* the program is inside wait_ready of the oscillator id
Waiting(id) == [op |-> "wait_ready", id |-> id]

\* Osc8m::wait_ready, the call: self.token.wait_ready()
Osc8mWaitReady(s) ==
    /\ pc = Idle /\ osc8m[s].st = "handle"
    /\ pc' = Waiting("osc8m")
    /\ wlog' = <<>>
    /\ last' = Last("Osc8m::wait_ready", "osc8m", "called", 0)
    /\ UNCHANGED <<eic, pwm, pac, osc8m, osc32k, xosc, xosc32k, dpll, pclk, gclk, osculp,
                   apb, hw, rmw, irqs>>

\* Osc32k::wait_ready, the call
Osc32kWaitReady ==
    /\ pc = Idle /\ osc32k.st = "handle"
    /\ pc' = Waiting("osc32k")
    /\ wlog' = <<>>
    /\ last' = Last("Osc32k::wait_ready", "osc32k", "called", 0)
    /\ UNCHANGED <<eic, pwm, pac, osc8m, osc32k, xosc, xosc32k, dpll, pclk, gclk, osculp,
                   apb, hw, rmw, irqs>>

\* EnabledXosc<M, N>::wait_ready, the call
XoscWaitReady ==
    /\ pc = Idle /\ xosc.st = "enabled"
    /\ pc' = Waiting("xosc")
    /\ wlog' = <<>>
    /\ last' = Last("Xosc::wait_ready", "xosc", "called", xosc.n)
    /\ UNCHANGED <<eic, pwm, pac, osc8m, osc32k, xosc, xosc32k, dpll, pclk, gclk, osculp,
                   apb, hw, rmw, irqs>>

\* a poll that gives up when it reads the bit clear
WaitReadyPollOnce ==
    /\ pc.op = "wait_ready"
    /\ LET io == Read(NoIo(hw), "PCLKSR")
       IN  /\ hw' = io.regs /\ wlog' = io.log
           /\ pc' = Idle
           /\ last' = [last EXCEPT !.res = "returned"]
    /\ UNCHANGED <<eic, pwm, pac, osc8m, osc32k, xosc, xosc32k, dpll, pclk, gclk, osculp,
                   apb, rmw, irqs>>

\* one turn of `while self.pclksr().read().<bit>().bit_is_clear() {}`:
\* read PCLKSR, leave the loop and return when the bit is set
WaitReadyPoll ==
    /\ pc.op = "wait_ready"
    /\ LET io == Read(NoIo(hw), "PCLKSR")
       IN  /\ hw' = io.regs /\ wlog' = io.log
           /\ IF io.regs.PCLKSR[RdyBit(pc.id)]
              THEN pc' = Idle /\ last' = [last EXCEPT !.res = "returned"]
              ELSE pc' = pc /\ last' = last
    /\ UNCHANGED <<eic, pwm, pac, osc8m, osc32k, xosc, xosc32k, dpll, pclk, gclk, osculp,
                   apb, rmw, irqs>>

\* inputs of the readiness specification
RdyXoscFreqs  == {4000000}
RdyRawPredivs == {0}
RdyLoopDivs   == {<<24, 0>>}
RdyOsc8mSlots == {2}

\* the program works on one call at a time: while it is inside wait_ready
\* only the poll loop and the hardware move
NextReady ==
    \/ PorState
    \/ pc = Idle /\ \E s \in RdyOsc8mSlots : Osc8mNew(s)
    \/ pc = Idle /\ \E s \in RdyOsc8mSlots : Osc8mEnable(s)
    \/ pc = Idle /\ \E s \in RdyOsc8mSlots : Osc8mDisable(s)
    \/ \E s \in RdyOsc8mSlots : Osc8mWaitReady(s)
    \/ pc = Idle /\ Osc32kNew
    \/ pc = Idle /\ Osc32kEnable
    \/ pc = Idle /\ Osc32kDisable
    \/ Osc32kWaitReady
    \/ pc = Idle /\ \E f \in RdyXoscFreqs : XoscFromClock(f)
    \/ pc = Idle /\ XoscEnable
    \/ pc = Idle /\ XoscDisable
    \/ XoscWaitReady
    \/ pc = Idle /\ \E r \in RdyRawPredivs : DpllFromXosc(r)
    \/ pc = Idle /\ DpllFreeXosc
    \/ pc = Idle /\ \E d \in RdyLoopDivs : DpllSetLoopDiv(d[1], d[2])
    \/ pc = Idle /\ DpllEnableOk
    \/ pc = Idle /\ DpllDisable
    \/ pc = Idle /\ DpllWaitUntilReady
    \/ pc = Idle /\ DpllWaitUntilLocked
    \/ WaitReadyPoll
    \/ \E id \in OscIds : HwOscReady(id)
    \/ \E id \in OscIds : HwOscStop(id)
    \/ \E flag \in DpllFlags : HwDpllStatus(flag)

SpecReady == Init /\ [][NextReady]_vars

----------------------------------------------------------------------------
(* Claims C21 - C22: readiness queries                                     *)

\* a step in which the operation op returns
Returns(op) == last' # last /\ last'.op = op

\* one read of reg and nothing else
OneRead(reg) == <<[reg |-> reg, fields |-> {}]>>

\* what a query leaves alone: every handle, token and register
QueryFrame == own' = own /\ hw' = hw /\ pac' = pac /\ apb' = apb /\ pc' = pc

\* C21: wait_until_ready answers WouldBlock exactly when CLKRDY is clear and
\* Ok otherwise, wait_until_locked does the same with LOCK; each reads
\* DPLLSTATUS once, looks at its own flag only and changes nothing.
C21_DpllQueriesNonBlocking ==
    [][/\ Returns("Dpll::wait_until_ready") =>
             /\ last'.res = (IF hw.DPLLSTATUS.clkrdy THEN "Ok" ELSE "WouldBlock")
             /\ wlog' = OneRead("DPLLSTATUS")
             /\ QueryFrame
       /\ Returns("Dpll::wait_until_locked") =>
             /\ last'.res = (IF hw.DPLLSTATUS.lock THEN "Ok" ELSE "WouldBlock")
             /\ wlog' = OneRead("DPLLSTATUS")
             /\ QueryFrame]_vars

C21_Witness ==
    /\ last.op = "Dpll::wait_until_ready" /\ last.res = "Ok"
    /\ hw.DPLLSTATUS.clkrdy /\ ~hw.DPLLSTATUS.lock
    /\ dpll.st = "enabled"

\* the poll loop keeps running, and the hardware does raise the ready bit
\* of an oscillator that is switched on
SpecReadyFair ==
    /\ SpecReady
    /\ WF_vars(WaitReadyPoll)
    /\ \A id \in OscIds : WF_vars(HwOscReady(id))

\* the ready bit wait_ready of the oscillator id polls
Rdy(id) == hw.PCLKSR[RdyBit(id)]

\* C22: wait_ready of Xosc, Osc8m and Osc32k returns only from a poll that
\* reads the ready bit set, so it never returns while the bit stays clear;
\* its steps read PCLKSR and write nothing; a call that finds the bit set
\* and staying set returns; and on an enabled Xosc, whose bit the hardware
\* raises, the call terminates.
C22_WaitReadyPollsUntilSet ==
    /\ [][\A id \in OscIds :
            /\ (pc = Waiting(id) /\ pc' = Idle) => Rdy(id)
            /\ (pc = Waiting(id) /\ (pc' # pc \/ wlog' # wlog)) =>
                  /\ wlog' = OneRead("PCLKSR")
                  /\ hw' = hw /\ own' = own]_vars
    /\ \A id \in OscIds :
          (pc = Waiting(id) /\ Rdy(id)) ~> (pc = Idle \/ ~Rdy(id))
    /\ (pc = Waiting("xosc")) ~> (pc = Idle)

C22_Witness ==
    /\ last.op = "Xosc::wait_ready" /\ last.res = "returned" /\ pc = Idle
    /\ wlog = OneRead("PCLKSR") /\ hw.PCLKSR.xoscrdy /\ xosc.st = "enabled"

----------------------------------------------------------------------------
(* Claims C23 - C25: the ultra-low-power oscillator and the reset state    *)

UlpHandles == {"base", "osculp32k", "osculp1k"}

\* C23: no operation disables OscUlpBase, OscUlp32k or OscUlp1k (an enabled
\* one never becomes a disabled handle or a token), and as long as the base
\* handle exists its usage counter is not below the 2 of the reset state.
C23_UlpNeverDisabled ==
    [][/\ \A k \in UlpHandles :
             osculp[k].st = "enabled" => osculp'[k].st \notin {"handle", "token"}
       /\ \A k \in UlpHandles \ {"base"} :
             osculp[k].st = "enabled" => osculp'[k].st = "enabled"
       /\ osculp'.base.st = "enabled" => osculp'.base.n >= 2]_vars

C23_Witness ==
    /\ last.op = "OscUlp::dec" /\ last.id = "osculp32k"
    /\ osculp.osculp32k = [st |-> "enabled", n |-> 0]
    /\ osculp.base = [st |-> "enabled", n |-> 2]
    /\ hw.OSCULP32K.calib = 17

\* a write_lock that borrows the handle and leaves it with the caller
Osc32kWriteLockBorrowed ==
    /\ osc32k.st = "handle"
    /\ LET io == Modify(NoIo(hw), "OSC32K", [wrtlock |-> TRUE])
       IN  hw' = io.regs /\ wlog' = io.log
    /\ osc32k' = osc32k
    /\ last' = Last("Osc32k::write_lock", "osc32k", "ok", 0)
    /\ UNCHANGED <<eic, pwm, pc, pac, osc8m, xosc, xosc32k, dpll, pclk, gclk, osculp, apb,
                   rmw, irqs>>

\* Osc32k::write_lock: self.token.wrtlock(), then self is dropped
Osc32kWriteLock ==
    /\ osc32k.st = "handle"
    /\ LET io == Modify(NoIo(hw), "OSC32K", [wrtlock |-> TRUE])
       IN  hw' = io.regs /\ wlog' = io.log
    /\ osc32k' = Osc32kNone
    /\ last' = Last("Osc32k::write_lock", "osc32k", "ok", 0)
    /\ UNCHANGED <<eic, pwm, pc, pac, osc8m, xosc, xosc32k, dpll, pclk, gclk, osculp, apb,
                   rmw, irqs>>

\* EnabledOsc32k<N>::write_lock, for every N
Osc32kEnabledWriteLock ==
    /\ osc32k.st = "enabled"
    /\ LET io == Modify(NoIo(hw), "OSC32K", [wrtlock |-> TRUE])
       IN  hw' = io.regs /\ wlog' = io.log
    /\ osc32k' = Osc32kNone
    /\ last' = Last("EnabledOsc32k::write_lock", "osc32k", "ok", osc32k.n)
    /\ UNCHANGED <<eic, pwm, pc, pac, osc8m, xosc, xosc32k, dpll, pclk, gclk, osculp, apb,
                   rmw, irqs>>

\* inputs of the write-lock specification
LockCalibs == {0, 17}

\* the two 32 kHz oscillators that can be write-locked, with every
\* operation that writes OSC32K or OSCULP32K
NextLock ==
    \/ PorState
    \/ Osc32kNew
    \/ Osc32kFree
    \/ \E u \in CfgStartups32k : Osc32kStartUp(u)
    \/ \E c \in LockCalibs : Osc32kSetCalibration(c)
    \/ Osc32kEnable
    \/ Osc32kDisable
    \/ Osc32kWriteLock
    \/ Osc32kEnabledWriteLock
    \/ \E c \in LockCalibs : OscUlpBaseSetCalibration(c)
    \/ OscUlpBaseWriteLock

SpecLock == Init /\ [][NextLock]_vars

\* the operation of this step writes the register reg
Writes(reg) ==
    /\ last' # last \/ wlog' # wlog
    /\ \E i \in 1..Len(wlog') : wlog'[i].reg = reg /\ wlog'[i].fields # {}

\* C24: write_lock sets WRTLOCK and drops the handle with its token: once
\* WRTLOCK of OSC32K is set no operation writes OSC32K, once WRTLOCK of
\* OSCULP32K is set none writes OSCULP32K.
C24_WriteLockEndsRegisterAccess ==
    [][/\ Returns("Osc32k::write_lock") \/ Returns("EnabledOsc32k::write_lock")
             => hw'.OSC32K.wrtlock /\ osc32k'.st = "none"
       /\ Returns("OscUlpBase::write_lock")
             => hw'.OSCULP32K.wrtlock /\ osculp'.base.st = "none"
       /\ hw.OSC32K.wrtlock => ~Writes("OSC32K") /\ hw'.OSC32K = hw.OSC32K
       /\ hw.OSCULP32K.wrtlock
             => ~Writes("OSCULP32K") /\ hw'.OSCULP32K = hw.OSCULP32K]_vars

C24_Witness ==
    /\ hw.OSC32K.wrtlock /\ hw.OSC32K.enable /\ osc32k.st = "none"
    /\ hw.OSCULP32K.wrtlock /\ osculp.base.st = "none"
    /\ last.op = "OscUlpBase::write_lock"

\* the reset-state consumers built from the outputs of the ultra-low-power
\* oscillator: the outputs themselves on the base, Gclk2 on OscUlp32k
UlpBaseConsumers ==
    Cardinality({k \in UlpOutputs : osculp[k].st = "enabled"})
OscUlp32kConsumers ==
    Cardinality({g \in GclkIds : gclk[g].st = "enabled" /\ gclk[g].src = "osculp32k"})
OscUlp1kConsumers ==
    Cardinality({g \in GclkIds : gclk[g].st = "enabled" /\ gclk[g].src = "osculp1k"})

\* C25: in the state por_state returns, every usage counter is the number
\* of consumers por_state built from that source: Osc8m 1 (Gclk0),
\* OscUlpBase 2 (OscUlp32k, OscUlp1k), OscUlp32k 1 (Gclk2), OscUlp1k 0,
\* Gclk2 1 (the WDT channel).
C25_ResetCountersMatchConsumers ==
    last.op = "por_state" =>
        /\ osc8m[1].st = "enabled" /\ osc8m[1].n = 1 /\ Osc8mConsumers = 1
        /\ osculp.base.st = "enabled" /\ osculp.base.n = 2 /\ UlpBaseConsumers = 2
        /\ osculp.osculp32k.st = "enabled" /\ osculp.osculp32k.n = 1
        /\ OscUlp32kConsumers = 1
        /\ osculp.osculp1k.st = "enabled" /\ osculp.osculp1k.n = 0
        /\ OscUlp1kConsumers = 0
        /\ gclk[2].st = "enabled" /\ gclk[2].n = 1 /\ GclkConsumers(2) = 1

C25_Witness ==
    /\ last.op = "por_state" /\ pac = "wrapped"
    /\ pclk["wdt0"].st = "enabled" /\ pclk["wdt0"].src = 2
    /\ gclk[0].src = "osc8m" /\ gclk[2].src = "osculp32k"

----------------------------------------------------------------------------
(* Claims C26 - C27: the Dpll and its source                               *)

\* a Dpll, disabled or enabled, built from the source kind src
DpllFedBy(src) == dpll.st \in {"handle", "enabled"} /\ dpll.src = src

\* C26: teardown goes in reverse dependency order.  The counter of an Xosc
\* or Xosc32k is lowered only by Dpll::free, on a disabled Dpll whose ENABLE
\* bit is clear; XOSC.ENABLE is never cleared while a Dpll built from the
\* Xosc exists; an enabled Dpll always has its source enabled and counted.
C26_TeardownInReverseOrder ==
    [][/\ (xosc.st = "enabled" /\ xosc'.st = "enabled" /\ xosc'.n < xosc.n)
             => /\ Returns("Dpll::free") /\ DpllFedBy("xosc")
                /\ dpll.st = "handle" /\ ~hw.DPLLCTRLA.enable
       /\ (xosc32k.st = "enabled" /\ xosc32k'.st = "enabled" /\ xosc32k'.n < xosc32k.n)
             => /\ Returns("Dpll::free") /\ DpllFedBy("xosc32k")
                /\ dpll.st = "handle" /\ ~hw.DPLLCTRLA.enable
       /\ (hw.XOSC.enable /\ ~hw'.XOSC.enable) => ~DpllFedBy("xosc")
       /\ (xosc32k.st = "enabled" /\ xosc32k'.st = "token") => ~DpllFedBy("xosc32k")
       /\ (dpll'.st = "enabled" /\ dpll'.src = "xosc")
             => xosc'.st = "enabled" /\ xosc'.n >= 1 /\ hw'.XOSC.enable
       /\ (dpll'.st = "enabled" /\ dpll'.src = "xosc32k")
             => xosc32k'.st = "enabled" /\ xosc32k'.n >= 1]_vars

C26_Witness ==
    /\ last.op = "Xosc::disable" /\ xosc.st = "handle" /\ ~hw.XOSC.enable
    /\ dpll.st = "token" /\ ~hw.DPLLCTRLA.enable /\ hw.DPLLRATIO.ldr = 47
    /\ hw.DPLLCTRLB.refclk = "REF1"

\* the steps that build a Dpll from its token and that free it again
DpllBuilt == dpll.st = "token" /\ dpll'.st = "handle"
DpllFreed == dpll.st = "handle" /\ dpll'.st = "token"

\* the step touches no register
NoRegisterAccess == hw' = hw /\ wlog' = <<>>

\* C27: constructing a Dpll and freeing it restores the source.  from_pclk
\* moves the Pclk into the Dpll, where it stays as it is, and free hands the
\* same Pclk and the DpllToken back; from_xosc / from_xosc32k raise the
\* counter of the source by one, it stays there while the Dpll exists, and
\* free lowers it by one and hands the DpllToken back; none of them touches
\* a register.
C27_DpllFreeRestoresSource ==
    [][/\ (DpllBuilt /\ dpll'.src = "pclk")
             => dpll'.pclk = pclk["dpll"] /\ xosc' = xosc /\ xosc32k' = xosc32k
       /\ (DpllBuilt /\ dpll'.src = "xosc") => xosc' = Inc(xosc) /\ pclk' = pclk
       /\ (DpllBuilt /\ dpll'.src = "xosc32k")
             => xosc32k' = Inc(xosc32k) /\ pclk' = pclk
       /\ (DpllFedBy("pclk") /\ dpll'.st \in {"handle", "enabled"})
             => dpll'.pclk = dpll.pclk
       /\ (DpllFedBy("xosc") /\ dpll'.st \in {"handle", "enabled"}) => xosc' = xosc
       /\ (DpllFedBy("xosc32k") /\ dpll'.st \in {"handle", "enabled"})
             => xosc32k' = xosc32k
       /\ (DpllFreed /\ dpll.src = "pclk")
             => pclk'["dpll"] = dpll.pclk /\ xosc' = xosc /\ xosc32k' = xosc32k
       /\ (DpllFreed /\ dpll.src = "xosc") => xosc' = Dec(xosc) /\ pclk' = pclk
       /\ (DpllFreed /\ dpll.src = "xosc32k")
             => xosc32k' = Dec(xosc32k) /\ pclk' = pclk
       /\ DpllFreed => dpll' = DpllToken
       /\ (DpllBuilt \/ DpllFreed) => NoRegisterAccess]_vars

C27_Witness ==
    /\ last.op = "Dpll::free" /\ dpll = DpllToken
    /\ xosc.st = "enabled" /\ xosc.n = 0
    /\ hw.DPLLCTRLB.refclk = "REF1" /\ hw.DPLLRATIO.ldr = 47

----------------------------------------------------------------------------
(* Claims C28 - C30: the numbers Dpll::enable programs and checks          *)

\* a Dpll::enable that wrote the registers has returned
DpllEnabledNow == last.op = "Dpll::enable" /\ last.res = "Ok"

\* C28: the fraction is a 5-bit value, and a successful Dpll::enable writes
\* exactly the configured frac to DPLLRATIO.LDRFRAC.
C28_FracProgrammedExactly ==
    DpllEnabledNow => dpll.frac \in 0..31 /\ hw.DPLLRATIO.ldrfrac = dpll.frac


\* the widths of DPLLRATIO.LDR and DPLLCTRLB.DIV
LdrBits == 12
DivBits == 10

RECURSIVE Pow2(_)
Pow2(n) == IF n = 0 THEN 1 ELSE 2 * Pow2(n - 1)

\* C29: for every configuration Dpll::enable accepts, mult is at least 1,
\* mult - 1 fits the 12-bit LDR field and is what DPLLRATIO.LDR holds, and
\* for an Xosc source raw_prediv fits the 10-bit DIV field and is what
\* DPLLCTRLB.DIV holds.
C29_IntegerFieldsProgrammedWithoutLoss ==
    DpllEnabledNow =>
        /\ dpll.mult >= 1
        /\ dpll.mult - 1 < Pow2(LdrBits)
        /\ hw.DPLLRATIO.ldr = dpll.mult - 1
        /\ dpll.src = "xosc" =>
              /\ dpll.raw_prediv < Pow2(DivBits)
              /\ hw.DPLLCTRLB.div = dpll.raw_prediv

\* C30: Dpll::enable never accepts a configuration whose exact product
\* (src_freq / predivider) * (mult + frac/32) does not fit in 32 bits, and
\* every call of Dpll::enable returns Ok or Err.
C30_WindowCheckSoundAndTotal ==
    last.op = "Dpll::enable" =>
        /\ last.res \in {"Ok", "Err"}
        /\ last.res = "Ok" => ~Dpll_freq(dpll).ovf

----------------------------------------------------------------------------
(* Claims C31 - C32: the registers after Xosc::enable and Osc32k::enable   *)

\* the XOSC fields a handle stands for once it is enabled
XoscExpected(o) ==
    [enable   |-> TRUE,
     xtalen   |-> (o.mode = "CrystalMode"),
     startup  |-> XoscStartupBits(o.start_up_cycles),
     ondemand |-> o.on_demand,
     runstdby |-> o.run_standby,
     ampgc    |-> o.amplitude_loop_control,
     gain     |-> GainBits(o.gain)]

\* C31: when Xosc::enable has returned, XTALEN, STARTUP, ONDEMAND, RUNSTDBY,
\* AMPGC, GAIN and ENABLE of the XOSC register equal the values stored in the
\* handle, with ENABLE set and XTALEN set exactly in crystal mode, whatever
\* an earlier configuration left in the register.
C31_XoscEnableProgramsStored ==
    last.op = "Xosc::enable" =>
        /\ xosc.st = "enabled"
        /\ hw.XOSC = XoscExpected(xosc)

\* an Xosc enabled from a crystal with every field set away from its default
C31_Witness ==
    /\ last.op = "Xosc::enable"
    /\ xosc.mode = "CrystalMode" /\ xosc.start_up_cycles = "CYCLE32768"
    /\ ~xosc.on_demand /\ xosc.run_standby /\ xosc.gain = "FourMHz"
    /\ ~xosc.amplitude_loop_control

\* the OSC32K fields Osc32k::enable copies from the handle
Osc32kConfigured(o) ==
    /\ hw.OSC32K.ondemand = o.on_demand_mode
    /\ hw.OSC32K.runstdby = o.run_standby
    /\ hw.OSC32K.startup = Osc32kStartupBits(o.start_up)

\* C32: when Osc32k::enable has returned, EN32K and ENABLE of OSC32K are both
\* set; EnabledOsc32k::disable clears ENABLE and then EN32K, and when it has
\* returned both bits are clear while ONDEMAND, RUNSTDBY and STARTUP still
\* hold the configured values.
C32_Osc32kEnableDisableBits ==
    /\ last.op = "Osc32k::enable" =>
          /\ hw.OSC32K.enable /\ hw.OSC32K.en32k
          /\ Osc32kConfigured(osc32k)
    /\ last.op = "Osc32k::disable" =>
          /\ ~hw.OSC32K.enable /\ ~hw.OSC32K.en32k
          /\ wlog = <<[reg |-> "OSC32K", fields |-> {"enable"}],
                      [reg |-> "OSC32K", fields |-> {"en32k"}]>>
          /\ Osc32kConfigured(osc32k)

\* an Osc32k disabled again after it ran with a configuration away from the
\* register's reset value
C32_Witness ==
    /\ last.op = "Osc32k::disable" /\ osc32k.st = "handle"
    /\ ~osc32k.on_demand_mode /\ osc32k.run_standby
    /\ hw.OSC32K.ondemand # HwReset.OSC32K.ondemand
    /\ hw.OSC32K.runstdby # HwReset.OSC32K.runstdby
    /\ hw.OSC32K.startup # HwReset.OSC32K.startup

----------------------------------------------------------------------------
(* Claim C33: the channel a Pclk operation addresses                       *)

PclkOps == {"Pclk::enable", "Pclk::disable"}

\* C33: every CLKCTRL transaction of Pclk::enable and Pclk::disable on
\* channel P writes the ID field, the register is left addressing P's own
\* channel index, and the enable bit and source selection of every other
\* channel are unchanged by the step, whatever channel was addressed before.
C33_PclkAddressesOwnChannel ==
    [][(last'.op \in PclkOps /\ pclk' # pclk) =>
          /\ \A i \in 1..Len(wlog') :
                wlog'[i].reg = "CLKCTRL" /\ "id" \in wlog'[i].fields
          /\ hw'.CLKCTRL.id = DynPclkId(last'.id)
          /\ \A c \in ChanIds \ {DynPclkId(last'.id)} : hw'.chan[c] = hw.chan[c]]_vars

\* the Dpll channel has just been disabled while the Wdt channel is enabled
\* and runs from another generator
C33_Witness ==
    /\ last.op = "Pclk::disable" /\ last.id = "DpllId"
    /\ pclk["wdt"].st = "pclk"
    /\ hw.chan[DynPclkId("Wdt")].clken
    /\ ~hw.chan[DynPclkId("DpllId")].clken
    /\ hw.chan[DynPclkId("Wdt")].gen # hw.chan[DynPclkId("DpllId")].gen

----------------------------------------------------------------------------
(* Claim C34: ApbToken / ApbClk and the mask bit                           *)

ApbBitSet(regs, a) == ApbBit[a][2] \in regs[MaskName(ApbBit[a][1])]

\* the mask bit of A is set iff an ApbClk<A> exists
ApbMirror(regs, owners) ==
    \A a \in ApbIds : ApbBitSet(regs, a) <=> owners[a] = "clk"

ApbOps == {"Apb::enable", "Apb::disable"}

\* C34: Apb::enable turns the ApbToken of one peripheral into its ApbClk and
\* leaves its mask bit set, Apb::disable turns the ApbClk into the ApbToken
\* and leaves the bit clear, no other token or clock changes hands, and a
\* step of either that starts with "bit set iff ApbClk exists" for every
\* peripheral ends with it.
C34_ApbStateMirrorsMaskBit ==
    [][(last'.op \in ApbOps /\ apb' # apb) =>
          /\ \A a \in ApbIds \ {last'.id} : apb'[a] = apb[a]
          /\ last'.op = "Apb::enable" =>
                /\ apb[last'.id] = "token" /\ apb'[last'.id] = "clk"
                /\ ApbBitSet(hw', last'.id)
          /\ last'.op = "Apb::disable" =>
                /\ apb[last'.id] = "clk" /\ apb'[last'.id] = "token"
                /\ ~ApbBitSet(hw', last'.id)
          /\ ApbMirror(hw, apb) => ApbMirror(hw', apb')]_vars

\* a clock of the reset state has been disabled after a token was enabled,
\* and every mask bit still agrees with its token or clock
C34_Witness ==
    /\ last.op = "Apb::disable" /\ last.id = "Wdt" /\ apb["Wdt"] = "token"
    /\ apb["Usb"] = "clk" /\ apb["Sercom0"] = "clk"
    /\ ApbMirror(hw, apb)

----------------------------------------------------------------------------
(* Claim C35: tokens and handles are conserved                             *)

\* inputs of the ownership specification
TokXoscFreqs  == {4000000}
TokRawPredivs == {0}
TokLoopDivs   == {<<24, 0>>, <<16, 0>>}
TokPclkGclks  == {0}
TokOsc8mSlots == {2}
TokApbIds     == {"Wdt", "Usb"}

\* every kind of operation that takes a token or a handle by value: new and
\* free, from_* and free, enable and disable, a rejected Dpll::enable,
\* Apb::enable and disable, Pclk::enable and disable, and write_lock
NextTok ==
    \/ PorState
    \/ \E s \in TokOsc8mSlots : Osc8mNew(s)
    \/ \E s \in TokOsc8mSlots : Osc8mFree(s)
    \/ Osc32kNew
    \/ Osc32kFree
    \/ Osc32kEnable
    \/ Osc32kDisable
    \/ Osc32kWriteLock
    \/ \E f \in TokXoscFreqs : XoscFromClock(f)
    \/ XoscFree
    \/ XoscEnable
    \/ XoscDisable
    \/ \E g \in TokPclkGclks : PclkEnable("dpll", g)
    \/ \E g \in TokPclkGclks : PclkDisable("dpll", g)
    \/ DpllFromPclk
    \/ DpllFreePclk
    \/ \E r \in TokRawPredivs : DpllFromXosc(r)
    \/ DpllFreeXosc
    \/ \E d \in TokLoopDivs : DpllSetLoopDiv(d[1], d[2])
    \/ DpllEnableOk
    \/ DpllEnableErr
    \/ DpllDisable
    \/ \E a \in TokApbIds : ApbEnable(a)
    \/ \E a \in TokApbIds : ApbDisable(a)

SpecTok == Init /\ [][NextTok]_vars

\* 1 for a token or handle that exists, 0 for one that does not
Owned(x) == IF x.st = "none" THEN 0 ELSE 1

\* the number of tokens-or-handles of every identity; a Pclk moved into a
\* Dpll is still a handle of its channel
Holders(o8, o32, xo, xo32, dp, pk, ap) ==
    [osc8m   |-> [s \in Osc8mSlots |-> Owned(o8[s])],
     osc32k  |-> Owned(o32),
     xosc    |-> Owned(xo),
     xosc32k |-> Owned(xo32),
     dpll    |-> Owned(dp),
     pclk    |-> [s \in PclkSlots |->
                    Owned(pk[s]) + (IF s = "dpll" THEN Owned(dp.pclk) ELSE 0)],
     apb     |-> [a \in ApbIds |-> IF ap[a] = "none" THEN 0 ELSE 1]]

WriteLockOps == {"Osc32k::write_lock", "EnabledOsc32k::write_lock",
                 "OscUlpBase::write_lock"}

\* C35: every operation other than write_lock (and por_state, which hands
\* out the tokens) leaves the number of tokens-or-handles of every identity
\* as it was: what it consumes it returns, a rejected Dpll::enable included,
\* and it creates none; write_lock alone ends with one fewer.
C35_TokensConserved ==
    [][/\ (last'.op \notin WriteLockOps \cup {"por_state"})
             => Holders(osc8m', osc32k', xosc', xosc32k', dpll', pclk', apb')
                   = Holders(osc8m, osc32k, xosc, xosc32k, dpll, pclk, apb)
       /\ Returns("Osc32k::write_lock")
             => Owned(osc32k) = 1 /\ Owned(osc32k') = 0]_vars

\* a rejected Dpll::enable has handed back the Dpll, which still holds the
\* Pclk it was built from, while an Apb clock and the Osc32k are in use
C35_Witness ==
    /\ last.op = "Dpll::enable" /\ last.res = "Err"
    /\ dpll.st = "handle" /\ dpll.pclk.st = "pclk" /\ pclk["dpll"].st = "none"
    /\ osc32k.st = "enabled" /\ apb["Usb"] = "clk"

----------------------------------------------------------------------------
(* Claim C36: the register writes of por_state                             *)

\* the registers of the oscillators, the DPLL and the APB masks
FramedRegs == DOMAIN HwReset \ {"CLKCTRL", "chan"}

----------------------------------------------------------------------------
(* The external interrupt controller: init_with_ulp32k / init_with_gclk,   *)
(* ConfigurableEIC and EIC                                                 *)

\* the variables of the clock tree, which the EIC and PWM drivers leave alone
ClockVars == <<pac, osc8m, osc32k, xosc, xosc32k, dpll, pclk, gclk, osculp, apb,
               hw, rmw, irqs>>

\* eic.ctrla.modify(..): the hardware raises the SYNCBUSY bit of SWRST and
\* ENABLE when the bit is written as 1 / written at all
EicCtrlaModify(io, upd) ==
    LET m == Modify(io, "EIC_CTRLA", upd)
    IN  [m EXCEPT !.regs["EIC_SYNCBUSY"] =
            [swrst  |-> @.swrst \/ m.regs["EIC_CTRLA"].swrst,
             enable |-> @.enable \/ "enable" \in DOMAIN upd]]

\* the controller as an earlier owner of pac::EIC may have left it: enabled,
\* clocked from the 32 kHz oscillator, debouncing pin 1
EicUsedRegs ==
    [EicResetRegs EXCEPT !["EIC_CTRLA"] = [swrst |-> FALSE, enable |-> TRUE,
                                           cksel |-> TRUE],
                         !["EIC_DPRESCALER"].tickon = TRUE,
                         !["EIC_DEBOUNCEN"] = [bits |-> {1}]]

\* the owner of pac::EIC uses the controller before it hands it to init_*
EicRawUse ==
    /\ eic.own = "raw" /\ eic.regs = EicResetRegs
    /\ eic' = [eic EXCEPT !.regs = EicUsedRegs]
    /\ UNCHANGED <<ClockVars, pwm, pc, wlog, last>>

\* the software reset completes: every register takes its reset value, the
\* SWRST bit and its synchronisation bit clear
HwEicResetDone ==
    /\ eic.regs["EIC_SYNCBUSY"].swrst
    /\ eic' = [eic EXCEPT !.regs = EicResetRegs]
    /\ UNCHANGED <<ClockVars, pwm, pc, wlog, last>>

\* the write of ENABLE is synchronised
HwEicEnableSynced ==
    /\ eic.regs["EIC_SYNCBUSY"].enable /\ ~eic.regs["EIC_SYNCBUSY"].swrst
    /\ eic' = [eic EXCEPT !.regs["EIC_SYNCBUSY"].enable = FALSE]
    /\ UNCHANGED <<ClockVars, pwm, pc, wlog, last>>

EicInitName(ulp32k) == IF ulp32k THEN "init_with_ulp32k" ELSE "init_with_gclk"

\* init_with_ulp32k / init_with_gclk up to the wait: the APB clock of the
\* EIC is switched on and the software reset is requested
EicInit(ulp32k) ==
    /\ pc = Idle /\ eic.own = "raw"
    /\ LET io == EicCtrlaModify(NoIo(eic.regs), [swrst |-> TRUE])
       IN  /\ eic' = [own |-> "init", apbamask_eic |-> TRUE, regs |-> io.regs]
           /\ wlog' = io.log
    /\ pc' = [op |-> "eic_init", id |-> EicInitName(ulp32k)]
    /\ last' = Last(EicInitName(ulp32k), "eic", "called", 0)
    /\ UNCHANGED <<ClockVars, pwm>>

\* an init that selects the clock without looking at SYNCBUSY.SWRST
EicInitPollNoWait ==
    /\ pc.op = "eic_init"
    /\ LET a == Read(NoIo(eic.regs), "EIC_SYNCBUSY")
           b == EicCtrlaModify(a, [cksel |-> (pc.id = "init_with_ulp32k")])
       IN  /\ eic' = [eic EXCEPT !.own = "configurable", !.regs = b.regs]
           /\ wlog' = b.log
           /\ pc' = Idle
           /\ last' = [last EXCEPT !.res = "returned"]
    /\ UNCHANGED <<ClockVars, pwm>>

\* one turn of `while eic.syncbusy.read().swrst().bit_is_set() { nop }`; when
\* the bit is clear: ctrla.modify(cksel) and ConfigurableEIC::new(eic)
EicInitPoll ==
    /\ pc.op = "eic_init"
    /\ LET a == Read(NoIo(eic.regs), "EIC_SYNCBUSY")
           b == EicCtrlaModify(a, [cksel |-> (pc.id = "init_with_ulp32k")])
       IN  IF eic.regs["EIC_SYNCBUSY"].swrst
           THEN /\ wlog' = a.log
                /\ UNCHANGED <<eic, pc, last>>
           ELSE /\ eic' = [eic EXCEPT !.own = "configurable", !.regs = b.regs]
                /\ wlog' = b.log
                /\ pc' = Idle
                /\ last' = [last EXCEPT !.res = "returned"]
    /\ UNCHANGED <<ClockVars, pwm>>

\* ConfigurableEIC::button_debounce_pins_ulp32k / _gclk
EicButtonDebouncePins(debounce_pins, ulp32k) ==
    /\ pc = Idle /\ eic.own = "configurable"
    /\ LET a == Modify(NoIo(eic.regs), "EIC_DPRESCALER",
                       [tickon |-> ulp32k, states0 |-> TRUE, states1 |-> TRUE,
                        prescaler0 |-> "DIV16", prescaler1 |-> "DIV16"])
           b == Modify(a, "EIC_DEBOUNCEN", [bits |-> debounce_pins])
       IN  eic' = [eic EXCEPT !.regs = b.regs] /\ wlog' = b.log
    /\ last' = Last(IF ulp32k THEN "button_debounce_pins_ulp32k"
                              ELSE "button_debounce_pins_gclk", "eic", "ok", 0)
    /\ UNCHANGED <<ClockVars, pwm, pc>>

\* ConfigurableEIC::finalize, From<ConfigurableEIC> for EIC up to the wait
EicFinalize ==
    /\ pc = Idle /\ eic.own = "configurable"
    /\ LET io == EicCtrlaModify(NoIo(eic.regs), [enable |-> TRUE])
       IN  eic' = [eic EXCEPT !.own = "finalizing", !.regs = io.regs]
           /\ wlog' = io.log
    /\ pc' = [op |-> "eic_finalize", id |-> "finalize"]
    /\ last' = Last("finalize", "eic", "called", 0)
    /\ UNCHANGED <<ClockVars, pwm>>

\* one turn of `while eic.eic.syncbusy.read().enable().bit_is_set() { nop }`;
\* when the bit is clear: Self { eic }
EicFinalizePoll ==
    /\ pc.op = "eic_finalize"
    /\ LET a == Read(NoIo(eic.regs), "EIC_SYNCBUSY")
       IN  /\ wlog' = a.log
           /\ IF eic.regs["EIC_SYNCBUSY"].enable
              THEN UNCHANGED <<eic, pc, last>>
              ELSE /\ eic' = [eic EXCEPT !.own = "enabled"]
                   /\ pc' = Idle
                   /\ last' = [last EXCEPT !.res = "returned"]
    /\ UNCHANGED <<ClockVars, pwm>>

\* inputs of the EIC specification
EicPinSets == {{}, {0}, {3, 15}, {0, 1, 2, 3}}

NextEic ==
    \/ EicRawUse
    \/ \E u \in BOOLEAN : EicInit(u)
    \/ EicInitPoll
    \/ \E p \in EicPinSets, u \in BOOLEAN : EicButtonDebouncePins(p, u)
    \/ EicFinalize
    \/ EicFinalizePoll
    \/ HwEicResetDone
    \/ HwEicEnableSynced

SpecEic == Init /\ [][NextEic]_vars

\* the operation of this step writes field f of the EIC register reg
EicWrites(reg, f) ==
    /\ last' # last \/ wlog' # wlog
    /\ \E i \in 1..Len(wlog') : wlog'[i].reg = reg /\ f \in wlog'[i].fields

\* the step writes the debounce configuration or the clock selection
EicConfigWrite ==
    \/ EicWrites("EIC_CTRLA", "cksel")
    \/ EicWrites("EIC_DPRESCALER", "tickon")
    \/ EicWrites("EIC_DEBOUNCEN", "bits")

\* C37: init_with_ulp32k / init_with_gclk request the software reset and
\* select the clock only in a step that has read SYNCBUSY.SWRST clear;
\* CTRLA.ENABLE is set only by finalize(), which returns the EIC only after
\* it has read SYNCBUSY.ENABLE clear; the debounce registers are written
\* only through a ConfigurableEIC; and no debounce or clock-selection write
\* happens while ENABLE is set.  A ConfigurableEIC is reset, disabled and
\* clocked as its constructor says.
C37_EicConfigureThenEnable ==
    /\ [](eic.own = "configurable" =>
             /\ ~eic.regs["EIC_CTRLA"].enable /\ ~eic.regs["EIC_CTRLA"].swrst
             /\ ~eic.regs["EIC_SYNCBUSY"].swrst)
    /\ [][/\ EicWrites("EIC_CTRLA", "cksel") =>
                /\ pc.op = "eic_init" /\ wlog'[1] = [reg |-> "EIC_SYNCBUSY", fields |-> {}]
                /\ ~eic.regs["EIC_SYNCBUSY"].swrst /\ ~eic.regs["EIC_CTRLA"].swrst
          /\ (eic.own = "init" /\ eic'.own = "configurable") =>
                eic'.regs = [EicResetRegs EXCEPT !["EIC_CTRLA"].cksel =
                                                   (last'.op = "init_with_ulp32k")]
          /\ EicWrites("EIC_CTRLA", "enable") => last'.op = "finalize"
          /\ (eic.own # "enabled" /\ eic'.own = "enabled") =>
                /\ last'.op = "finalize" /\ wlog' = OneRead("EIC_SYNCBUSY")
                /\ eic'.regs["EIC_CTRLA"].enable /\ ~eic'.regs["EIC_SYNCBUSY"].enable
          /\ (EicWrites("EIC_DPRESCALER", "tickon") \/ EicWrites("EIC_DEBOUNCEN", "bits"))
                => eic.own = "configurable"
          /\ EicConfigWrite => ~eic.regs["EIC_CTRLA"].enable
          /\ eic.own = "enabled" => eic' = eic]_vars

\* finalize() has returned the EIC, enabled, clocked from the 32 kHz
\* oscillator and debouncing pins 3 and 15
C37_Witness ==
    /\ eic.own = "enabled" /\ last.op = "finalize" /\ last.res = "returned"
    /\ eic.regs["EIC_CTRLA"] = [swrst |-> FALSE, enable |-> TRUE, cksel |-> TRUE]
    /\ eic.regs["EIC_DEBOUNCEN"].bits = {3, 15}
    /\ eic.regs["EIC_DPRESCALER"].prescaler0 = "DIV16"

----------------------------------------------------------------------------
(* The PWM drivers: pwm!, pwm_tc! and pwm_tcc!                             *)

PwmKinds == {"pwm", "pwm_tc", "pwm_tcc"}

\* the division factors TimerParams and TcClockPrescaler can ask for
PwmDividers == {1, 2, 4, 8, 16, 64, 256, 1024}

\* w.prescaler().div1() .. div1024(): the value of the CTRLA.PRESCALER field
PwmPrescalerBits(divider) ==
    CASE divider = 1 -> 0 [] divider = 2 -> 1 [] divider = 4 -> 2
      [] divider = 8 -> 3 [] divider = 16 -> 4 [] divider = 64 -> 5
      [] divider = 256 -> 6 [] divider = 1024 -> 7

\* the division factor a CTRLA.PRESCALER value stands for
PwmPrescalerFactor(bits) ==
    CHOOSE d \in PwmDividers : PwmPrescalerBits(d) = bits

U16Max == 65535

\* the TOP value new / set_period leave in the timer: CC0 (params.cycles as
\* u16) for pwm!, the fixed 16-bit maximum for pwm_tc!, PER for pwm_tcc!
PwmTopOf(kind, cycles) ==
    CASE kind = "pwm" -> cycles % (U16Max + 1)
      [] kind = "pwm_tc" -> U16Max
      [] kind = "pwm_tcc" -> cycles

\* $TYPE::new: software reset, prescaler, waveform, TOP, enable
PwmNew(kind, clock_freq, divider, cycles) ==
    /\ pwm.kind = "none"
    /\ pwm' = [kind |-> kind, clock_freq |-> clock_freq,
               prescaler |-> PwmPrescalerBits(divider),
               top |-> PwmTopOf(kind, cycles), enable |-> TRUE]
    /\ wlog' = <<>>
    /\ last' = Last("new", kind, "ok", 0)
    /\ UNCHANGED <<ClockVars, eic, pc>>

\* set_period: pwm! and pwm_tcc! program prescaler and TOP again; pwm_tc!
\* is panic!("Not implemented")
PwmSetPeriod(divider, cycles) ==
    /\ pwm.kind \in PwmKinds
    /\ IF pwm.kind = "pwm_tc"
       THEN /\ pwm' = [pwm EXCEPT !.kind = "halted"]
            /\ last' = Last("set_period", pwm.kind, "panic", 0)
       ELSE /\ pwm' = [pwm EXCEPT !.prescaler = PwmPrescalerBits(divider),
                                  !.top = PwmTopOf(pwm.kind, cycles),
                                  !.enable = TRUE]
            /\ last' = Last("set_period", pwm.kind, "ok", 0)
    /\ wlog' = <<>>
    /\ UNCHANGED <<ClockVars, eic, pc>>

RECURSIVE Pow2U32(_)
Pow2U32(n) == IF n = 0 THEN 1 ELSE 2 * Pow2U32(n - 1)

\* the divisor get_period computes from the PRESCALER field it reads:
\* the field value itself in pwm!, 1 << field in pwm_tc! and pwm_tcc!
Pwm_divisor(kind, bits) == IF kind = "pwm" THEN bits ELSE Pow2U32(bits)

\* get_period: Hertz(clock_freq / divisor / (top + 1)); a division by zero
\* panics
Pwm_get_period(p) ==
    LET divisor == Pwm_divisor(p.kind, p.prescaler)
    IN  IF divisor = 0
        THEN [res |-> "panic", hz |-> 0]
        ELSE [res |-> "ok", hz |-> (p.clock_freq \div divisor) \div (p.top + 1)]

PwmGetPeriod ==
    /\ pwm.kind \in PwmKinds
    /\ LET r == Pwm_get_period(pwm)
       IN  /\ last' = Last("get_period", pwm.kind, r.res, r.hz)
           /\ pwm' = IF r.res = "panic" THEN [pwm EXCEPT !.kind = "halted"] ELSE pwm
    /\ wlog' = <<>>
    /\ UNCHANGED <<ClockVars, eic, pc>>

\* inputs of the PWM specification
PwmClockFreqs == {48000000}
PwmCycles     == {0, 999, 65535}

NextPwm ==
    \/ \E k \in PwmKinds, f \in PwmClockFreqs, d \in PwmDividers, c \in PwmCycles :
          PwmNew(k, f, d, c)
    \/ \E d \in PwmDividers, c \in PwmCycles : PwmSetPeriod(d, c)
    \/ PwmGetPeriod

SpecPwm == Init /\ [][NextPwm]_vars

\* C38: for every PWM type get_period returns clock_freq / D / (top + 1),
\* D being the division factor of the prescaler setting that new or
\* set_period programmed, and it never panics on a division by zero.
C38_GetPeriodUsesDivisionFactor ==
    last.op = "get_period" =>
        /\ last.res = "ok"
        /\ last.n = (pwm.clock_freq \div PwmPrescalerFactor(pwm.prescaler))
                       \div (pwm.top + 1)

----------------------------------------------------------------------------
(* The value-level identity tables                                          *)

\* C39: no two ApbIds share a (mask register, bit) pair, every ApbId's mask
\* is exactly one bit, 1 << BIT, of exactly one of the A, B and C registers,
\* and no two PclkIds share a CLKCTRL channel index; so in every state the
\* ApbIds whose gate is open are as many as the assigned mask bits that are
\* set, and the PclkIds whose channel runs as many as the running channels.
C39_IdentityTablesInjective ==
    /\ \A a, b \in ApbIds :
          a # b => <<DynApbMask(a).reg, DynApbMask(a).bits>>
                      # <<DynApbMask(b).reg, DynApbMask(b).bits>>
    /\ \A a \in ApbIds :
          /\ DynApbMask(a).reg \in MaskRegs
          /\ Cardinality({r \in MaskRegs : DynApbMask(a).reg = r}) = 1
          /\ DynApbMask(a).bits \subseteq Bits32
          /\ Cardinality(DynApbMask(a).bits) = 1
          /\ DynApbMask(a).bits = {ApbBit[a][2]}
    /\ \A p, q \in PclkTypes : p # q => DynPclkId(p) # DynPclkId(q)
    /\ \A p \in PclkTypes : DynPclkId(p) \in ChanIds
    /\ Cardinality({a \in ApbIds : ApbBitSet(hw, a)})
          = Cardinality({m \in MaskRegs \X Bits32 :
                            /\ m[2] \in hw[MaskName(m[1])]
                            /\ \E a \in ApbIds : ApbBit[a] = m})
    /\ Cardinality({p \in PclkTypes : hw.chan[DynPclkId(p)].clken})
          = Cardinality({c \in ChanIds :
                            /\ hw.chan[c].clken
                            /\ \E p \in PclkTypes : DynPclkId(p) = c})

\* Usb has been enabled next to Dmac: the two ids of APBBMASK hold bits 5
\* and 4 of it, and of the channels only Wdt's, not its neighbour Rtc's, runs
C39_Witness ==
    /\ last.op = "Apb::enable" /\ last.id = "Usb"
    /\ apb["Usb"] = "clk" /\ apb["Dmac"] = "clk"
    /\ DynApbMask("Usb").bits \cup DynApbMask("Dmac").bits \subseteq hw.APBBMASK
    /\ hw.chan[DynPclkId("Wdt")].clken
    /\ ~hw.chan[DynPclkId("Rtc")].clken
=============================================================================
